---- MODULE Spec2Model ----
(***************************************************************************)
(* Hybrid retrieval core of synapse: the Qdrant-backed embedding index     *)
(* (core/rag/vector_store.py), the BM25 keyword index and the hybrid       *)
(* retriever that fuses both (core/rag/hybrid_retriever.py).               *)
(*                                                                         *)
(* Scores are exact rationals [n, d] (d > 0); the code computes them in    *)
(* floating point.  The BM25 scoring library, the embedding model and the  *)
(* Qdrant backend are environments: the scores the library returns, the    *)
(* similarity ranking of the backend and the failure of a call are chosen  *)
(* nondeterministically at each call, within what those components can     *)
(* return.                                                                 *)
(***************************************************************************)
EXTENDS Integers, Sequences, FiniteSets, TLC

(***************************************************************************)
(* Bounds of the model.                                                    *)
(***************************************************************************)
MaxChunks == 3        \* longest chunk list of one index_chunks call (Spec)
MaxTopK == 2          \* largest top_k of a search call
MaxBM25Score == 3     \* BM25 scores are 0 (not positive) .. MaxBM25Score
MaxVecScore == 2      \* similarity scores are 0 .. MaxVecScore
MaxBatches == 2       \* SpecBatch: chunk lists of up to MaxBatches full batches and a rest
EmbDim == 2           \* dimension of the embedding model
MaxTextLen == 5       \* SpecChunk: every text of up to MaxTextLen characters
MaxChunkSize == 4     \* SpecChunk: chunk sizes 1 .. MaxChunkSize
MaxFiles == 3         \* SpecFile: runs over up to MaxFiles files

(***************************************************************************)
(* Program constants.                                                      *)
(***************************************************************************)
DefaultChunkSize == 1000    \* chunk_size of CodeChunker.__init__
DefaultChunkOverlap == 100  \* chunk_overlap of CodeChunker.__init__
BatchSize == 100      \* batch_size of QdrantVectorStore.index_chunks
OverfetchFactor == 3  \* overfetch_k = top_k * 3
MinTokenLen == 2      \* len(word) >= 2
AlphaDen == 10        \* alpha is AlphaNum / AlphaDen; the default 0.3 is 3/10
DefaultAlphaNum == 3

VARIABLES
    store,      \* the points of the backing collection: id -> payload
    index,      \* BM25Retriever.index: [state, corpus]
    doc_ids,    \* BM25Retriever.doc_ids
    kw_good,    \* history: the keyword index as last built with success
    reachable,  \* whether the Qdrant backend answers
    collection_exists, \* whether the backend holds the collection
    alpha,      \* HybridRetriever.alpha, numerator over AlphaDen
    loop,       \* the command-line session: chat()'s or run()'s locals
    last        \* the last call: its inputs and what it returned

vars == <<store, index, doc_ids, kw_good, reachable, collection_exists, alpha,
          loop, last>>

\* the backend answers requests on the collection
Answers == reachable /\ collection_exists

(***************************************************************************)
(* Sequences.                                                              *)
(***************************************************************************)
Range(s) == {s[i] : i \in 1..Len(s)}

Min2(a, b) == IF a <= b THEN a ELSE b

Max2(a, b) == IF a >= b THEN a ELSE b

\* s[:k] of Python, k >= 0
Take(s, k) == SubSeq(s, 1, Min2(k, Len(s)))

\* s[::-1]
Reverse(s) == [i \in 1..Len(s) |-> s[Len(s) + 1 - i]]

\* s[-k:] of Python for k >= 0: the last k elements, and the whole of s for k = 0
LastK(s, k) == IF k = 0 THEN s ELSE SubSeq(s, Max2(1, Len(s) - k + 1), Len(s))

Ids(results) == [i \in 1..Len(results) |-> results[i].id]

NoDup(s) == \A i, j \in 1..Len(s) : s[i] = s[j] => i = j

SeqsUpTo(S, n) == UNION {[1..k -> S] : k \in 0..n}

(***************************************************************************)
(* Texts are sequences of characters; " " is the only whitespace.          *)
(***************************************************************************)
\* the letter U+0130 (capital I with dot above), alphanumeric, and the
\* combining dot above U+0307, which is not
CapitalIDot == "U+0130"

CombiningDot == "U+0307"

\* str.lower() of one character: the lowercase of U+0130 is the two
\* characters 'i' and U+0307
LowerChar(c) ==
    IF c = "A" THEN <<"a">>
    ELSE IF c = "B" THEN <<"b">>
    ELSE IF c = CapitalIDot THEN <<"i", CombiningDot>>
    ELSE <<c>>

IsAlnumChar(c) == c \in {"a", "b", "c", "i", "A", "B", CapitalIDot}

\* str.lower()
RECURSIVE Lower(_)
Lower(t) == IF t = <<>> THEN <<>> ELSE LowerChar(Head(t)) \o Lower(Tail(t))

\* str.isalnum(): non-empty and every character alphanumeric
IsAlnum(w) == Len(w) > 0 /\ \A i \in 1..Len(w) : IsAlnumChar(w[i])

\* str.split(): the maximal runs of non-whitespace characters
RECURSIVE SplitFrom(_, _, _)
SplitFrom(t, i, cur) ==
    IF i > Len(t)
    THEN IF cur = <<>> THEN <<>> ELSE <<cur>>
    ELSE IF t[i] = " "
         THEN (IF cur = <<>> THEN <<>> ELSE <<cur>>) \o SplitFrom(t, i + 1, <<>>)
         ELSE SplitFrom(t, i + 1, Append(cur, t[i]))

Split(t) == SplitFrom(t, 1, <<>>)

\* [word.lower() for word in words if len(word) >= 2 and word.isalnum()]
RECURSIVE TokensOf(_)
TokensOf(words) ==
    IF words = <<>> THEN <<>>
    ELSE (IF Len(Head(words)) >= MinTokenLen /\ IsAlnum(Head(words))
          THEN <<Lower(Head(words))>> ELSE <<>>) \o TokensOf(Tail(words))

\* the query tokenization of BM25Retriever.search
QueryTokens(query) == TokensOf(Split(query))

\* the corpus tokenization of BM25Retriever._build_index for one payload
DocTokens(payload) ==
    IF payload.searchable_text # <<>>
    THEN TokensOf(Split(payload.searchable_text))
    ELSE TokensOf(Take(Split(payload.content), 50))

TxtAa == <<"a", "a">>
TxtBb == <<"B", "b">>
TxtCc == <<"c", "c">>
TxtAaBb == <<"a", "a", " ", "B", "b">>
TxtAaBbCc == <<"a", "a", " ", "B", "b", " ", "c", "c">>
TxtNoToken == <<"a", " ", "b", "_">>

(***************************************************************************)
(* Rationals.                                                              *)
(***************************************************************************)
R(n, d) == [n |-> n, d |-> d]

RZero == R(0, 1)

ROne == R(1, 1)

RLe(a, b) == a.n * b.d <= b.n * a.d

RLt(a, b) == a.n * b.d < b.n * a.d

REq(a, b) == a.n * b.d = b.n * a.d

RAdd(a, b) == R(a.n * b.d + b.n * a.d, a.d * b.d)

RSub(a, b) == R(a.n * b.d - b.n * a.d, a.d * b.d)

RMul(a, b) == R(a.n * b.n, a.d * b.d)

\* a / b for b > 0
RDiv(a, b) == R(a.n * b.d, a.d * b.n)

RECURSIVE RMinOf(_)
RMinOf(s) ==
    IF Len(s) = 1 THEN s[1]
    ELSE LET m == RMinOf(Tail(s)) IN IF RLe(s[1], m) THEN s[1] ELSE m

RECURSIVE RMaxOf(_)
RMaxOf(s) ==
    IF Len(s) = 1 THEN s[1]
    ELSE LET m == RMaxOf(Tail(s)) IN IF RLe(m, s[1]) THEN s[1] ELSE m

(***************************************************************************)
(* Search results.  A dict key that is absent is the empty sequence in the *)
(* slot of that key, a present one a sequence of length 1.                 *)
(***************************************************************************)
NoKey == <<>>

\* the result dict of BM25Retriever.search: id, score, search_type; no payload
BM25Result(id, s) ==
    [id |-> id, score |-> R(s, 1), search_type |-> "bm25", payload |-> NoKey]

\* the result dict of QdrantVectorStore.search: id, score, payload
VectorResult(id, s, p) ==
    [id |-> id, score |-> R(s, 1), search_type |-> "none", payload |-> <<p>>]

(***************************************************************************)
(* HybridRetriever._fuse_scores.                                           *)
(***************************************************************************)
WithNorm(r, x) ==
    [id |-> r.id, score |-> r.score, search_type |-> r.search_type,
     payload |-> r.payload, normalized_score |-> x]

\* a normalization that gives 0.0 to a list of equal scores
normalize_scores_EqualToZero(results) ==
    IF results = <<>> THEN results
    ELSE LET scores == [i \in 1..Len(results) |-> results[i].score]
             min_score == RMinOf(scores)
             max_score == RMaxOf(scores)
         IN IF REq(max_score, min_score)
            THEN [i \in 1..Len(results) |-> WithNorm(results[i], RZero)]
            ELSE [i \in 1..Len(results) |->
                    WithNorm(results[i],
                             RDiv(RSub(results[i].score, min_score),
                                  RSub(max_score, min_score)))]

\* normalize_scores, the helper nested in _fuse_scores
normalize_scores(results) ==
    IF results = <<>> THEN results
    ELSE LET scores == [i \in 1..Len(results) |-> results[i].score]
             min_score == RMinOf(scores)
             max_score == RMaxOf(scores)
         IN IF REq(max_score, min_score)
            THEN [i \in 1..Len(results) |-> WithNorm(results[i], ROne)]
            ELSE [i \in 1..Len(results) |->
                    WithNorm(results[i],
                             RDiv(RSub(results[i].score, min_score),
                                  RSub(max_score, min_score)))]

\* {r['id']: r for r in results}: the position a dict lookup of doc_id finds
\* (the last one with that id), 0 when the id is no key
LookupIdx(results, doc_id) ==
    LET hits == {i \in 1..Len(results) : results[i].id = doc_id}
    IN IF hits = {} THEN 0 ELSE CHOOSE i \in hits : \A j \in hits : j <= i

\* fused_score = (1 - alpha) * bm25_score + alpha * vector_score
FusedScore(a, bm25_score, vector_score) ==
    RAdd(RMul(RSub(ROne, R(a, AlphaDen)), bm25_score),
         RMul(R(a, AlphaDen), vector_score))

FusedResult(r, fused_score, bm25_score, vector_score, payload) ==
    [id |-> r.id, score |-> fused_score, search_type |-> "hybrid",
     payload |-> payload, normalized_score |-> r.normalized_score,
     bm25_score |-> bm25_score, vector_score |-> vector_score]

\* the first loop of _fuse_scores: every BM25 result
FuseBM25Part(bm25_normalized, vector_normalized, a) ==
    [i \in 1..Len(bm25_normalized) |->
        LET result == bm25_normalized[i]
            v == LookupIdx(vector_normalized, result.id)
            bm25_score == result.normalized_score
            vector_score == IF v = 0 THEN RZero
                            ELSE vector_normalized[v].normalized_score
        IN FusedResult(result, FusedScore(a, bm25_score, vector_score),
                       bm25_score, vector_score,
                       IF result.payload = NoKey /\ v # 0
                       THEN vector_normalized[v].payload
                       ELSE result.payload)]

\* a fusion that keeps only the documents the keyword search found
FuseVectorOnlyPart_Dropped(bm25_normalized, vector_normalized, a) == <<>>

\* the second loop of _fuse_scores: the vector results that are no BM25 result
RECURSIVE FuseVectorOnlyPart(_, _, _)
FuseVectorOnlyPart(bm25_normalized, vector_normalized, a) ==
    IF vector_normalized = <<>> THEN <<>>
    ELSE LET result == Head(vector_normalized)
             vector_score == result.normalized_score
         IN (IF LookupIdx(bm25_normalized, result.id) = 0
             THEN <<FusedResult(result, FusedScore(a, RZero, vector_score),
                                RZero, vector_score, result.payload)>>
             ELSE <<>>)
            \o FuseVectorOnlyPart(bm25_normalized, Tail(vector_normalized), a)

_fuse_scores(bm25_results, vector_results, a) ==
    LET bm25_normalized == normalize_scores(bm25_results)
        vector_normalized == normalize_scores(vector_results)
    IN FuseBM25Part(bm25_normalized, vector_normalized, a)
       \o FuseVectorOnlyPart(bm25_normalized, vector_normalized, a)

(***************************************************************************)
(* list.sort(key=lambda x: x['score'], reverse=True): stable, descending.  *)
(***************************************************************************)
\* a sort that is not stable: x goes before the elements of equal score
InsertDesc_BeforeEquals(sorted, x) ==
    LET p == Cardinality({i \in 1..Len(sorted) : RLt(x.score, sorted[i].score)})
    IN SubSeq(sorted, 1, p) \o <<x>> \o SubSeq(sorted, p + 1, Len(sorted))

\* x goes after every element whose score is >= its own
InsertDesc(sorted, x) ==
    LET p == Cardinality({i \in 1..Len(sorted) : RLe(x.score, sorted[i].score)})
    IN SubSeq(sorted, 1, p) \o <<x>> \o SubSeq(sorted, p + 1, Len(sorted))

RECURSIVE SortByScoreDesc(_)
SortByScoreDesc(s) ==
    IF s = <<>> THEN <<>>
    ELSE InsertDesc(SortByScoreDesc(SubSeq(s, 1, Len(s) - 1)), s[Len(s)])

(***************************************************************************)
(* The backing collection.  A payload carries the chunk's content, its     *)
(* file and the lowercase copy of the content.                             *)
(***************************************************************************)
\* the payload of the PointStruct built by QdrantVectorStore.index_chunks
PayloadOf(chunk) ==
    [content |-> chunk.content, file_path |-> chunk.file_path,
     searchable_text |-> Lower(chunk.content)]

\* the ids of a collection in increasing order: the order client.scroll returns
RECURSIVE SortedIds(_)
SortedIds(S) ==
    IF S = {} THEN <<>>
    ELSE LET m == CHOOSE x \in S : \A y \in S : x <= y
         IN <<m>> \o SortedIds(S \ {m})

(***************************************************************************)
(* The rank_bm25 library, as BM25Retriever uses it.                        *)
(***************************************************************************)
TokEmpty == <<"e", "m", "p", "t", "y">>

\* BM25Okapi([["empty"]])
EmptyCorpus == << <<TokEmpty>> >>

NoIndex == [state |-> "none", corpus |-> <<>>]

SharesToken(doc, query_tokens) == Range(doc) \cap Range(query_tokens) # {}

\* the number of documents of the corpus that hold the term
DocFreq(corpus, t) == Cardinality({i \in 1..Len(corpus) : t \in Range(corpus[i])})

\* idf = log(N - n + 0.5) - log(n + 0.5) is positive when n < N / 2
PositiveIdf(corpus, t) == 2 * DocFreq(corpus, t) < Len(corpus)

\* a negative idf is replaced by epsilon * average idf, which is positive only
\* if some term of the corpus has a positive idf
MayWeighPositive(corpus, t) ==
    \/ PositiveIdf(corpus, t)
    \/ /\ 2 * DocFreq(corpus, t) > Len(corpus)
       /\ \E i \in 1..Len(corpus) : \E u \in Range(corpus[i]) : PositiveIdf(corpus, u)

\* BM25Okapi.get_scores: one score per document of the corpus.  0 stands for
\* every score that is not positive.  The score of a document is the sum, over
\* the query terms it holds, of idf times a positive term-frequency factor: a
\* document scores above 0 only if it shares with the query a term whose idf
\* may be positive, and equal documents score the same.
LibScores(corpus, query_tokens) ==
    {sc \in [1..Len(corpus) -> 0..MaxBM25Score] :
        /\ \A i \in 1..Len(corpus) :
              sc[i] > 0 =>
                  \E t \in Range(corpus[i]) \cap Range(query_tokens) :
                      MayWeighPositive(corpus, t)
        /\ \A i, j \in 1..Len(corpus) : corpus[i] = corpus[j] => sc[i] = sc[j]}

\* numpy argsort: a permutation of the indices that sorts the scores ascending;
\* which one, among equal scores, is the library's choice
ArgSorts(sc) ==
    {p \in [1..Len(sc) -> 1..Len(sc)] :
        /\ \A i, j \in 1..Len(sc) : p[i] = p[j] => i = j
        /\ \A i \in 1..(Len(sc) - 1) : sc[p[i]] <= sc[p[i + 1]]}

\* BM25Okapi(corpus) raises ZeroDivisionError when no document has a token
\* (average_idf = idf_sum / len(idf))
BM25OkapiRaises(corpus) == \A i \in 1..Len(corpus) : corpus[i] = <<>>

(***************************************************************************)
(* BM25Retriever.                                                          *)
(***************************************************************************)
\* the exceptions a build of the index can meet besides an unreachable
\* backend: rank_bm25 cannot be imported, the scroll raises, the payload of
\* the first point is malformed
BuildFaults == {"none", "import", "scroll", "payload"}

\* a build that lets the exception of the library or the backend through:
\* the index object of before stays in place
_build_index_KeepsOldIndex(idx, st, up, old_doc_ids, build_fault) ==
    IF build_fault \in {"import", "scroll"} \/ ~up
    THEN [index |-> idx, doc_ids |-> old_doc_ids]
    ELSE LET all_points == SortedIds(DOMAIN st)
             corpus == [i \in 1..Len(all_points) |-> DocTokens(st[all_points[i]])]
         IN IF all_points = <<>>
            THEN [index |-> [state |-> "empty", corpus |-> EmptyCorpus],
                  doc_ids |-> old_doc_ids]
            ELSE IF build_fault = "payload"
                 THEN [index |-> idx, doc_ids |-> <<>>]
                 ELSE IF BM25OkapiRaises(corpus)
                      THEN [index |-> idx, doc_ids |-> all_points]
                      ELSE [index |-> [state |-> "built", corpus |-> corpus],
                            doc_ids |-> all_points]

\* _build_index: the new [index, doc_ids] from the index of before, the
\* collection and build_fault, the exception the build meets.  Every
\* exception ends in index = None; doc_ids is reset only once the scroll has
\* returned points.
_build_index(idx, st, up, old_doc_ids, build_fault) ==
    IF build_fault \in {"import", "scroll"} \/ ~up
    THEN [index |-> NoIndex, doc_ids |-> old_doc_ids]
    ELSE LET all_points == SortedIds(DOMAIN st)
             corpus == [i \in 1..Len(all_points) |-> DocTokens(st[all_points[i]])]
         IN IF all_points = <<>>
            THEN [index |-> [state |-> "empty", corpus |-> EmptyCorpus],
                  doc_ids |-> old_doc_ids]
            ELSE IF build_fault = "payload"
                 THEN [index |-> NoIndex, doc_ids |-> <<>>]
                 ELSE IF BM25OkapiRaises(corpus)
                      THEN [index |-> NoIndex, doc_ids |-> all_points]
                      ELSE [index |-> [state |-> "built", corpus |-> corpus],
                            doc_ids |-> all_points]

\* a results loop that keeps the documents of no relevance
PositiveResults_Unfiltered(top_indices, sc, dids) ==
    LET known == SelectSeq(top_indices, LAMBDA i : i \in DOMAIN dids)
    IN [k \in 1..Len(known) |-> BM25Result(dids[known[k]], sc[known[k]])]

\* the results loop of BM25Retriever.search: the documents of top_indices whose
\* score is positive
RECURSIVE PositiveResults(_, _, _)
PositiveResults(top_indices, sc, dids) ==
    IF top_indices = <<>> THEN <<>>
    ELSE (IF sc[Head(top_indices)] > 0
          THEN <<BM25Result(dids[Head(top_indices)], sc[Head(top_indices)])>>
          ELSE <<>>) \o PositiveResults(Tail(top_indices), sc, dids)

\* BM25Retriever.search(query, top_k); sc and perm are what get_scores and
\* argsort return for this query, fault an exception raised inside the try block
BM25Search(idx, dids, query, top_k, sc, perm, fault) ==
    IF idx.state = "none" THEN <<>>
    ELSE IF fault THEN <<>>
    ELSE IF QueryTokens(query) = <<>> THEN <<>>
    ELSE LET top_indices == Reverse(LastK(perm, top_k))
         IN PositiveResults(top_indices, sc, dids)

(***************************************************************************)
(* QdrantVectorStore.search.                                               *)
(***************************************************************************)
\* the similarity rankings the backend may hold for a query: every point of
\* the collection once, by non-increasing score
Rankings(st) ==
    LET n == Cardinality(DOMAIN st)
    IN {r \in [1..n -> (DOMAIN st) \X (0..MaxVecScore)] :
            /\ \A i, j \in 1..n : r[i][1] = r[j][1] => i = j
            /\ \A i \in 1..(n - 1) : r[i][2] >= r[i + 1][2]}

\* a search whose failed query embedding goes unnoticed
VectorSearch_FailureIgnored(st, up, top_k, ranking, fault) ==
    IF ~up THEN <<>>
    ELSE LET search_results == Take(ranking, top_k)
         IN [i \in 1..Len(search_results) |->
                VectorResult(search_results[i][1], search_results[i][2],
                             st[search_results[i][1]])]

\* search(query, top_k): the first top_k points of the ranking, and [] when
\* the embedding of the query or the backend call raises
VectorSearch(st, up, top_k, ranking, fault) ==
    IF ~up \/ fault THEN <<>>
    ELSE LET search_results == Take(ranking, top_k)
         IN [i \in 1..Len(search_results) |->
                VectorResult(search_results[i][1], search_results[i][2],
                             st[search_results[i][1]])]

\* what client.search does with the keyword argument payload_filter, which is
\* none of its parameters: it raises, or it leaves the argument unused
KwargOutcomes == {"raises", "ignored"}

\* search(query, top_k, file_filter) with a file_filter: the filter is handed
\* to client.search as payload_filter
VectorSearchFiltered(st, up, top_k, ranking, fault, file_filter, kwarg) ==
    IF file_filter = "" THEN VectorSearch(st, up, top_k, ranking, fault)
    ELSE IF kwarg = "raises" THEN <<>>
    ELSE VectorSearch(st, up, top_k, ranking, fault)

(***************************************************************************)
(* HybridRetriever.search.                                                 *)
(***************************************************************************)
\* a backfill that takes every result for one that has its payload
NeedsPayload_Never(r) == FALSE

\* 'payload' not in r or r['payload'] is None
NeedsPayload(r) == r.payload = NoKey

\* a backfill whose lookup failure is not caught where it happens: it reaches
\* the handler of search, which returns []
Backfill_Unguarded(final_results, st, up, fault) ==
    LET ids_to_fetch == {final_results[i].id :
                            i \in {j \in 1..Len(final_results) :
                                      NeedsPayload(final_results[j])}}
    IN IF ids_to_fetch = {} THEN final_results
       ELSE IF ~up \/ fault THEN <<>>
       ELSE [i \in 1..Len(final_results) |->
                IF final_results[i].id \in (ids_to_fetch \cap DOMAIN st)
                THEN [final_results[i] EXCEPT !.payload = <<st[final_results[i].id]>>]
                ELSE final_results[i]]

\* the payload backfill: client.retrieve for the ids without payload
Backfill(final_results, st, up, fault) ==
    LET ids_to_fetch == {final_results[i].id :
                            i \in {j \in 1..Len(final_results) :
                                      NeedsPayload(final_results[j])}}
    IN IF ids_to_fetch = {} \/ ~up \/ fault THEN final_results
       ELSE [i \in 1..Len(final_results) |->
                IF final_results[i].id \in (ids_to_fetch \cap DOMAIN st)
                THEN [final_results[i] EXCEPT !.payload = <<st[final_results[i].id]>>]
                ELSE final_results[i]]

\* what the except clause of HybridRetriever.search does with an exception
\* raised in the try block: log it and return []
SearchExcept(bm25_results, vector_results) ==
    [raised |-> FALSE, result |-> <<>>, bm25_results |-> bm25_results,
     vector_results |-> vector_results, fused |-> <<>>, fused_ok |-> FALSE]

\* search(query, top_k).  env: what the library and the backend answer for
\* this query, and fault, the step at which an exception is raised ("none",
\* "bm25", "vector", "fuse", "sort", "retrieve")
HybridSearch(idx, dids, st, up, a, query, top_k, env) ==
    LET overfetch_k == top_k * OverfetchFactor
        bm25_results == BM25Search(idx, dids, query, overfetch_k, env.scores,
                                   env.perm, env.fault = "bm25")
        vector_results == VectorSearch(st, up, overfetch_k, env.ranking,
                                       env.fault = "vector")
        fused_results == _fuse_scores(bm25_results, vector_results, a)
        final_results == Take(SortByScoreDesc(fused_results), top_k)
    IN IF env.fault \in {"fuse", "sort"}
       THEN SearchExcept(bm25_results, vector_results)
       ELSE [raised |-> FALSE,
             result |-> Backfill(final_results, st, up, env.fault = "retrieve"),
             bm25_results |-> bm25_results, vector_results |-> vector_results,
             fused |-> fused_results, fused_ok |-> TRUE]

(***************************************************************************)
(* QdrantVectorStore.generate_embeddings and index_chunks.                 *)
(***************************************************************************)
ZeroVector == [j \in 1..EmbDim |-> 0]

\* a check that never takes an embedding for a failed one
IsAllZero_Never(embedding) == FALSE

IsAllZero(embedding) == \A j \in 1..Len(embedding) : embedding[j] = 0

\* embedder.encode for one text; zero: the model's output for it is all zeros
Encode(text, zero) ==
    IF zero THEN ZeroVector ELSE [j \in 1..EmbDim |-> Len(text) + j]

\* generate_embeddings(texts).  emb.ok: encode returns; emb.zero: the positions
\* whose encoding is all zeros.  When encode raises: one zero vector per text.
generate_embeddings(texts, emb) ==
    IF emb.ok
    THEN [i \in 1..Len(texts) |-> Encode(texts[i], i \in emb.zero)]
    ELSE [i \in 1..Len(texts) |-> ZeroVector]

\* the points loop of index_chunks: one point per chunk whose embedding is not
\* all zeros, its id the position of the chunk in the list (from 0)
PointsFrom(chunks, embeddings) ==
    LET Kept(i) == ~IsAllZero(embeddings[i])
        kept == SelectSeq([i \in 1..Len(chunks) |-> i], Kept)
    IN [k \in 1..Len(kept) |->
           [id |-> kept[k] - 1, vector |-> embeddings[kept[k]],
            payload |-> PayloadOf(chunks[kept[k]])]]

\* client.upsert(points=batch)
Upsert(st, batch) ==
    LET ids == {batch[k].id : k \in 1..Len(batch)}
    IN [i \in (DOMAIN st) \cup ids |->
           IF i \in ids
           THEN LET k == CHOOSE k \in 1..Len(batch) :
                            /\ batch[k].id = i
                            /\ \A m \in 1..Len(batch) : batch[m].id = i => m <= k
                IN batch[k].payload
           ELSE st[i]]

\* a batch loop that counts the points it tried to index
RECURSIVE UpsertBatches_CountsAttempted(_, _, _, _, _)
UpsertBatches_CountsAttempted(st, up, points, b, batch_fail) ==
    IF b * BatchSize >= Len(points)
    THEN [store |-> st, total_indexed |-> 0, upserts |-> <<>>]
    ELSE LET batch == SubSeq(points, b * BatchSize + 1,
                             Min2((b + 1) * BatchSize, Len(points)))
             ok == up /\ b \notin batch_fail
             rest == UpsertBatches_CountsAttempted(
                         IF ok THEN Upsert(st, batch) ELSE st, up,
                         points, b + 1, batch_fail)
         IN [store |-> rest.store,
             total_indexed |-> Len(batch) + rest.total_indexed,
             upserts |-> <<[first |-> batch[1].id, size |-> Len(batch), ok |-> ok]>>
                         \o rest.upserts]

\* the batch loop of index_chunks from batch number b on: the collection, the
\* count of indexed points and the upserts issued.  batch_fail: the batch
\* numbers whose upsert raises although the backend answers.
RECURSIVE UpsertBatches(_, _, _, _, _)
UpsertBatches(st, up, points, b, batch_fail) ==
    IF b * BatchSize >= Len(points)
    THEN [store |-> st, total_indexed |-> 0, upserts |-> <<>>]
    ELSE LET batch == SubSeq(points, b * BatchSize + 1,
                             Min2((b + 1) * BatchSize, Len(points)))
             ok == up /\ b \notin batch_fail
             rest == UpsertBatches(IF ok THEN Upsert(st, batch) ELSE st, up,
                                   points, b + 1, batch_fail)
         IN [store |-> rest.store,
             total_indexed |-> (IF ok THEN Len(batch) ELSE 0) + rest.total_indexed,
             upserts |-> <<[first |-> batch[1].id, size |-> Len(batch), ok |-> ok]>>
                         \o rest.upserts]

\* QdrantVectorStore.index_chunks(chunks): [store, count, upserts, embeddings]
VSIndexChunks(st, up, chunks, emb, batch_fail) ==
    IF chunks = <<>>
    THEN [store |-> st, count |-> 0, upserts |-> <<>>, embeddings |-> <<>>]
    ELSE LET texts == [i \in 1..Len(chunks) |-> chunks[i].content]
             embeddings == generate_embeddings(texts, emb)
             points == PointsFrom(chunks, embeddings)
             done == UpsertBatches(st, up, points, 0, batch_fail)
         IN IF points # <<>>
            THEN [store |-> done.store, count |-> done.total_indexed,
                  upserts |-> done.upserts, embeddings |-> embeddings]
            ELSE [store |-> st, count |-> 0, upserts |-> <<>>,
                  embeddings |-> embeddings]

\* the exceptions clear_collection can meet on a backend that answers its
\* first request: delete_collection raises, or the collection is deleted and
\* _ensure_collection_exists raises (encode or create_collection)
ClearFaults == {"none", "delete", "recreate"}

\* QdrantVectorStore.clear_collection: delete the collection and create it
\* again, empty.  Every exception is logged and the call returns: when the
\* delete raises nothing changes, when the recreation raises the collection
\* stays deleted.
ClearStore(st, up, present, fault) ==
    IF ~up \/ fault = "delete" THEN [store |-> st, exists |-> present]
    ELSE IF fault = "recreate" THEN [store |-> [i \in {} |-> 0], exists |-> FALSE]
    ELSE [store |-> [i \in {} |-> 0], exists |-> TRUE]

\* QdrantVectorStore.get_chunk_count(): points_count of the collection, 0
\* when the backend or the collection is not there
get_chunk_count(st, up) == IF up THEN Cardinality(DOMAIN st) ELSE 0

(***************************************************************************)
(* CodeChunker.  The splitter is langchain's RecursiveCharacterTextSplitter *)
(* as chunking.py configures it: the separators of PYTHON_SEPARATORS, kept *)
(* at the start of the piece that follows them, len as length function,    *)
(* whitespace stripped from every merged document.                         *)
(***************************************************************************)
\* str.strip() removes whitespace: the blank and the newline of the texts here
IsSpace(c) == c \in {" ", "\n"}

RECURSIVE LStrip(_)
LStrip(t) == IF t # <<>> /\ IsSpace(Head(t)) THEN LStrip(Tail(t)) ELSE t

RECURSIVE RStrip(_)
RStrip(t) ==
    IF t # <<>> /\ IsSpace(t[Len(t)]) THEN RStrip(SubSeq(t, 1, Len(t) - 1))
    ELSE t

Strip(t) == LStrip(RStrip(t))

\* "".join(pieces)
RECURSIVE Concat(_)
Concat(pieces) ==
    IF pieces = <<>> THEN <<>> ELSE Head(pieces) \o Concat(Tail(pieces))

\* sub stands in text at position i
OccursAt(text, sub, i) ==
    /\ i + Len(sub) - 1 <= Len(text)
    /\ \A k \in 1..Len(sub) : text[i + k - 1] = sub[k]

\* sub in text
Contains(text, sub) == \E i \in 1..(Len(text) + 1) : OccursAt(text, sub, i)

\* text.startswith(sub)
StartsWith(text, sub) == OccursAt(text, sub, 1)

PYTHON_SEPARATORS ==
    << <<"\n", "c", "l", "a", "s", "s", " ">>,
       <<"\n", " ", " ", " ", " ", "c", "l", "a", "s", "s", " ">>,
       <<"\n", " ", " ", " ", " ", "d", "e", "f", " ">>,
       <<"\n", "d", "e", "f", " ">>,
       <<"\n", " ", " ", " ", " ", " ", " ", " ", " ", "d", "e", "f", " ">>,
       <<"\n", " ", " ", " ", " ">>,
       <<"\n">>,
       <<" ">>,
       <<>> >>

\* re.split on a non-empty separator with the separator kept at the start of
\* the piece after it: the pieces from position i on, cur the piece begun
RECURSIVE SplitKeepStart(_, _, _, _)
SplitKeepStart(text, sep, i, cur) ==
    IF i > Len(text) THEN <<cur>>
    ELSE IF OccursAt(text, sep, i)
         THEN <<cur>> \o SplitKeepStart(text, sep, i + Len(sep), sep)
         ELSE SplitKeepStart(text, sep, i + 1, Append(cur, text[i]))

\* a split that drops the separators instead of keeping them
_split_text_with_regex_DropsSeparator(text, sep) ==
    IF sep = <<>> THEN [i \in 1..Len(text) |-> <<text[i]>>]
    ELSE LET pieces == SplitKeepStart(text, sep, 1, <<>>)
             bare == [k \in 1..Len(pieces) |->
                         IF k = 1 THEN pieces[k]
                         ELSE SubSeq(pieces[k], Len(sep) + 1, Len(pieces[k]))]
         IN SelectSeq(bare, LAMBDA s : s # <<>>)

\* _split_text_with_regex(text, separator, keep_separator=True): the empty
\* separator splits into characters; empty pieces are dropped
_split_text_with_regex(text, sep) ==
    IF sep = <<>> THEN [i \in 1..Len(text) |-> <<text[i]>>]
    ELSE SelectSeq(SplitKeepStart(text, sep, 1, <<>>), LAMBDA s : s # <<>>)

\* _join_docs(docs, ""): the joined and stripped text, nothing when it is empty
_join_docs(docs) ==
    LET text == Strip(Concat(docs))
    IN IF text = <<>> THEN <<>> ELSE <<text>>

\* the while loop of _merge_splits: pieces leave the front of current_doc
\* while it is longer than the overlap or the next piece does not fit
RECURSIVE PopFront(_, _, _, _, _)
PopFront(current_doc, total, len, chunk_size, chunk_overlap) ==
    IF total > chunk_overlap \/ (total + len > chunk_size /\ total > 0)
    THEN PopFront(Tail(current_doc), total - Len(Head(current_doc)), len,
                  chunk_size, chunk_overlap)
    ELSE [current_doc |-> current_doc, total |-> total]

\* a merge that never closes a document: all the pieces in one
MergeLoop_Unbounded(splits, docs, current_doc, total, chunk_size, chunk_overlap) ==
    docs \o _join_docs(current_doc \o splits)

\* the for loop of _merge_splits(splits, ""): a document is closed when the
\* next piece would carry it over chunk_size
RECURSIVE MergeLoop(_, _, _, _, _, _)
MergeLoop(splits, docs, current_doc, total, chunk_size, chunk_overlap) ==
    IF splits = <<>> THEN docs \o _join_docs(current_doc)
    ELSE LET d == Head(splits)
             len == Len(d)
             closes == total + len > chunk_size /\ current_doc # <<>>
             kept == IF closes
                     THEN PopFront(current_doc, total, len, chunk_size,
                                   chunk_overlap)
                     ELSE [current_doc |-> current_doc, total |-> total]
         IN MergeLoop(Tail(splits),
                      IF closes THEN docs \o _join_docs(current_doc) ELSE docs,
                      Append(kept.current_doc, d), kept.total + len,
                      chunk_size, chunk_overlap)

\* a merge that leaves every piece a document of its own
_merge_splits_Apart(splits, chunk_size, chunk_overlap) ==
    LET docs == [k \in 1..Len(splits) |-> Strip(splits[k])]
    IN SelectSeq(docs, LAMBDA d : d # <<>>)

_merge_splits(splits, chunk_size, chunk_overlap) ==
    MergeLoop(splits, <<>>, <<>>, 0, chunk_size, chunk_overlap)

\* the index of the separator _split_text uses: the first one that is empty
\* or stands in the text
RECURSIVE PickSeparator(_, _, _)
PickSeparator(text, separators, i) ==
    IF i >= Len(separators) THEN Len(separators)
    ELSE IF separators[i] = <<>> \/ Contains(text, separators[i]) THEN i
         ELSE PickSeparator(text, separators, i + 1)

RECURSIVE _split_text(_, _, _, _)
RECURSIVE SplitLoop(_, _, _, _, _)

\* the loop of _split_text over the pieces: pieces shorter than chunk_size
\* are collected and merged, every other piece is split by the separators
\* left, or kept as it is when none is left
SplitLoop(splits, good_splits, new_separators, chunk_size, chunk_overlap) ==
    LET merged == IF good_splits = <<>> THEN <<>>
                  ELSE _merge_splits(good_splits, chunk_size, chunk_overlap)
    IN IF splits = <<>> THEN merged
       ELSE LET s == Head(splits)
            IN IF Len(s) < chunk_size
               THEN SplitLoop(Tail(splits), Append(good_splits, s),
                              new_separators, chunk_size, chunk_overlap)
               ELSE merged
                    \o (IF new_separators = <<>> THEN <<s>>
                        ELSE _split_text(s, new_separators, chunk_size,
                                         chunk_overlap))
                    \o SplitLoop(Tail(splits), <<>>, new_separators,
                                 chunk_size, chunk_overlap)

\* RecursiveCharacterTextSplitter._split_text(text, separators)
_split_text(text, separators, chunk_size, chunk_overlap) ==
    LET i == PickSeparator(text, separators, 1)
        separator == separators[i]
        new_separators == IF separator = <<>> \/ ~Contains(text, separator)
                          THEN <<>>
                          ELSE SubSeq(separators, i + 1, Len(separators))
    IN SplitLoop(_split_text_with_regex(text, separator), <<>>,
                 new_separators, chunk_size, chunk_overlap)

\* splitter.create_documents([code]): the page contents of the documents
create_documents(code, chunk_size, chunk_overlap) ==
    _split_text(code, PYTHON_SEPARATORS, chunk_size, chunk_overlap)

\* content.split('\n')
RECURSIVE SplitLines(_, _, _)
SplitLines(t, i, cur) ==
    IF i > Len(t) THEN <<cur>>
    ELSE IF t[i] = "\n" THEN <<cur>> \o SplitLines(t, i + 1, <<>>)
         ELSE SplitLines(t, i + 1, Append(cur, t[i]))

KwClass == <<"c", "l", "a", "s", "s", " ">>
KwDef == <<"d", "e", "f", " ">>
KwIndentedDef == <<" ", " ", " ", " ", "d", "e", "f", " ">>
KwAsyncDef == <<"a", "s", "y", "n", "c", " ", "d", "e", "f", " ">>
KwIndentedAsyncDef ==
    <<" ", " ", " ", " ", "a", "s", "y", "n", "c", " ", "d", "e", "f", " ">>
KwInit == <<"_", "_", "i", "n", "i", "t", "_", "_", "(">>
KwIfName == <<"i", "f", " ", "_", "_", "n", "a", "m", "e">>
KwImport == <<"i", "m", "p", "o", "r", "t", " ">>
KwFrom == <<"f", "r", "o", "m", " ">>

\* the classification of one stripped, non-empty line
ClassifyLine(line) ==
    IF StartsWith(line, KwClass) THEN "class"
    ELSE IF StartsWith(line, KwDef) \/ StartsWith(line, KwIndentedDef)
         THEN "function"
    ELSE IF StartsWith(line, KwAsyncDef) \/ StartsWith(line, KwIndentedAsyncDef)
         THEN "async_function"
    ELSE IF Contains(line, KwInit) /\ Contains(line, KwDef) THEN "constructor"
    ELSE IF Contains(line, KwIfName) \/ Contains(line, KwImport)
            \/ Contains(line, KwFrom)
         THEN "module_setup"
    ELSE "code_block"

\* _classify_chunk(content): by the first line that is not blank
_classify_chunk(content) ==
    LET lines == SplitLines(content, 1, <<>>)
        filled == SelectSeq(lines, LAMBDA l : Strip(l) # <<>>)
    IN IF filled = <<>> THEN "unknown" ELSE ClassifyLine(Strip(filled[1]))

CodeChunk(content, start_line, end_line, chunk_type) ==
    [content |-> content, start_line |-> start_line, end_line |-> end_line,
     chunk_type |-> chunk_type]

\* a loop whose counter stays on the last line of the chunk before
ChunkLoop_SameLine(documents, current_line) ==
    [k \in 1..Len(documents) |->
        CodeChunk(Strip(documents[k]), current_line,
                  current_line + Len(SplitLines(Strip(documents[k]), 1, <<>>)) - 1,
                  _classify_chunk(Strip(documents[k])))]

\* the loop of chunk_code over the documents, current_line the running
\* line counter
RECURSIVE ChunkLoop(_, _)
ChunkLoop(documents, current_line) ==
    IF documents = <<>> THEN <<>>
    ELSE LET chunk_content == Strip(Head(documents))
             end_line == current_line
                         + Len(SplitLines(chunk_content, 1, <<>>)) - 1
         IN IF chunk_content = <<>>
            THEN ChunkLoop(Tail(documents), current_line)
            ELSE <<CodeChunk(chunk_content, current_line, end_line,
                             _classify_chunk(chunk_content))>>
                 \o ChunkLoop(Tail(documents), end_line + 1)

\* a chunk_code that takes the documents of the splitter as they are
chunk_code_Unstripped(code, chunk_size, chunk_overlap) ==
    LET documents == create_documents(code, chunk_size, chunk_overlap)
    IN [k \in 1..Len(documents) |->
           CodeChunk(documents[k], k, k, _classify_chunk(documents[k]))]

\* CodeChunker(chunk_size, chunk_overlap).chunk_code(code, file_path)
chunk_code(code, chunk_size, chunk_overlap) ==
    ChunkLoop(create_documents(code, chunk_size, chunk_overlap), 1)

(***************************************************************************)
(* The state machine.  A call runs the whole handler and leaves its inputs *)
(* and its result in last; the single-threaded caller takes the result     *)
(* (Return) before the next call is made.                                  *)
(***************************************************************************)
EmptyStore == [i \in {} |-> 0]

\* no command of core/main.py is running
NoLoop ==
    [mode |-> "none", pc |-> "none", provider |-> "", messages |-> <<>>,
     response |-> <<>>, sent |-> <<>>, requests |-> 0, max_steps |-> 0,
     step |-> 0, steps |-> <<>>, outcomes |-> <<>>, raised |-> FALSE,
     report |-> ""]

NoCall ==
    [op |-> "none", query |-> <<>>, top_k |-> 0, fault |-> "none", up |-> TRUE,
     present |-> TRUE, create |-> FALSE,
     scores |-> <<>>, perm |-> <<>>, ranking |-> <<>>, raised |-> FALSE,
     result |-> <<>>, bm25_results |-> <<>>, vector_results |-> <<>>,
     fused |-> <<>>, fused_ok |-> FALSE, chunks |-> <<>>, count |-> 0,
     upserts |-> <<>>, embeddings |-> <<>>, emb_ok |-> TRUE, zero |-> {},
     batch_fail |-> {}, pre |-> EmptyStore, file_filter |-> "",
     kwarg |-> "none", code |-> <<>>, chunk_size |-> 0, chunk_overlap |-> 0,
     documents |-> <<>>, kind |-> "", files |-> <<>>, failed_files |-> <<>>]

Alphas == {0, DefaultAlphaNum, 5, AlphaDen}

Faults == {"none", "bm25", "vector", "fuse", "sort", "retrieve"}

\* the chunk lists of the system specification: up to MaxChunks chunks, the
\* chunk 'Bb' first and chunks 'aa' after it
SysChunkLists ==
    {[k \in 1..n |-> [content |-> IF k = 1 THEN TxtBb ELSE TxtAa,
                      file_path |-> "a.py"]] : n \in 0..MaxChunks}

SysQueries == {TxtBb, TxtNoToken}

\* the corpus get_scores answers for: the index, or the last one built when
\* the index is unavailable
ScoredCorpus == IF index.state = "none" THEN kw_good.corpus ELSE index.corpus

\* the scores the library may answer with, none above smax
ScoresUpTo(query, smax) ==
    {sc \in LibScores(ScoredCorpus, QueryTokens(query)) :
        \A i \in DOMAIN sc : sc[i] <= smax}

\* one ranking of the backend: by id, the scores decreasing
IdRanking(st) ==
    LET ids == SortedIds(DOMAIN st)
    IN [i \in 1..Len(ids) |-> <<ids[i], Max2(0, MaxVecScore + 1 - i)>>]

\* HybridRetriever.search(query, top_k)
HybridSearchCall(queries, smax, rankings, faults) ==
    /\ last.op = "none"
    /\ \E query \in queries, top_k \in 0..MaxTopK, f \in faults :
       \E sc \in ScoresUpTo(query, smax), r \in rankings :
       \E p \in ArgSorts(sc) :
          LET env == [scores |-> sc, perm |-> p, ranking |-> r, fault |-> f]
              out == HybridSearch(index, doc_ids, store, Answers, alpha,
                                  query, top_k, env)
          IN last' = [NoCall EXCEPT !.op = "search", !.query = query,
                         !.top_k = top_k, !.fault = f,
                         !.up = Answers, !.scores = sc,
                         !.perm = p, !.ranking = r,
                         !.raised = out.raised, !.result = out.result,
                         !.bm25_results = out.bm25_results,
                         !.vector_results = out.vector_results,
                         !.fused = out.fused, !.fused_ok = out.fused_ok]
    /\ UNCHANGED <<store, index, doc_ids, kw_good, reachable, collection_exists,
                 alpha, loop>>

\* BM25Retriever.search(query, top_k)
BM25SearchCall(queries, smax, faults) ==
    /\ last.op = "none"
    /\ \E query \in queries, top_k \in 0..MaxTopK, f \in faults :
       \E sc \in ScoresUpTo(query, smax) :
       \E p \in ArgSorts(sc) :
          last' = [NoCall EXCEPT !.op = "bm25", !.query = query,
                      !.top_k = top_k, !.fault = f, !.up = Answers,
                      !.scores = sc, !.perm = p,
                      !.result = BM25Search(index, doc_ids, query, top_k,
                                            sc, p, f = "bm25")]
    /\ UNCHANGED <<store, index, doc_ids, kw_good, reachable, collection_exists,
                 alpha, loop>>

\* QdrantVectorStore.search(query, top_k)
VectorSearchCall(queries, rankings, faults) ==
    /\ last.op = "none"
    /\ \E query \in queries, top_k \in 0..MaxTopK, f \in faults, r \in rankings :
          last' = [NoCall EXCEPT !.op = "vector", !.query = query,
                      !.top_k = top_k, !.fault = f, !.up = Answers,
                      !.ranking = r,
                      !.result = VectorSearch(store, Answers, top_k, r,
                                              f = "vector")]
    /\ UNCHANGED <<store, index, doc_ids, kw_good, reachable, collection_exists,
                 alpha, loop>>

\* QdrantVectorStore.search(query, top_k, file_filter)
FilterSearchCall(queries, rankings, globs) ==
    /\ last.op = "none"
    /\ \E query \in queries, top_k \in 0..MaxTopK, r \in rankings,
          g \in globs, k \in KwargOutcomes :
          last' = [NoCall EXCEPT !.op = "vector_filter", !.query = query,
                      !.top_k = top_k, !.up = Answers, !.ranking = r,
                      !.file_filter = g, !.kwarg = k,
                      !.result = VectorSearchFiltered(store, Answers, top_k,
                                                      r, FALSE, g, k)]
    /\ UNCHANGED <<store, index, doc_ids, kw_good, reachable, collection_exists,
                 alpha, loop>>

\* a rebuild that reads the collection as it was before the call
Rebuilt_BeforeIndexing(idx, dids, st, up, build_fault) ==
    LET b == _build_index(idx, store, up, dids, build_fault)
    IN [index |-> b.index, doc_ids |-> b.doc_ids,
        kw_good |-> IF b.index.state = "none" THEN kw_good
                    ELSE [corpus |-> b.index.corpus, doc_ids |-> b.doc_ids]]

\* the keyword index after _build_index, and the history of the last good one
Rebuilt(idx, dids, st, up, build_fault) ==
    LET b == _build_index(idx, st, up, dids, build_fault)
    IN [index |-> b.index, doc_ids |-> b.doc_ids,
        kw_good |-> IF b.index.state = "none" THEN kw_good
                    ELSE [corpus |-> b.index.corpus, doc_ids |-> b.doc_ids]]

\* HybridRetriever.index_chunks(chunks): the vector store indexes, then the
\* keyword index is rebuilt
HybridIndexChunks(chunklists, build_faults) ==
    /\ last.op = "none"
    /\ \E chunks \in chunklists, ok \in BOOLEAN,
          f \in build_faults :
          LET out == VSIndexChunks(store, Answers, chunks,
                                   [ok |-> ok, zero |-> {}], {})
              b == Rebuilt(index, doc_ids, out.store, Answers, f)
          IN /\ store' = out.store
             /\ index' = b.index
             /\ doc_ids' = b.doc_ids
             /\ kw_good' = b.kw_good
             /\ last' = [NoCall EXCEPT !.op = "index", !.chunks = chunks,
                            !.fault = f,
                            !.up = Answers, !.count = out.count,
                            !.upserts = out.upserts, !.emb_ok = ok,
                            !.embeddings = out.embeddings, !.pre = store]
    /\ UNCHANGED <<reachable, collection_exists, alpha, loop>>

\* QdrantVectorStore.index_chunks(chunks) called on the store itself, as
\* scripts/index_codebase.py does: the keyword index is not rebuilt
StoreIndexChunks(chunklists, zerosets, failsets) ==
    /\ last.op = "none"
    /\ \E chunks \in chunklists, ok \in BOOLEAN, zero \in zerosets,
          batch_fail \in failsets :
          LET out == VSIndexChunks(store, Answers, chunks,
                                   [ok |-> ok, zero |-> zero], batch_fail)
          IN /\ store' = out.store
             /\ last' = [NoCall EXCEPT !.op = "vs_index", !.chunks = chunks,
                            !.up = Answers, !.count = out.count,
                            !.upserts = out.upserts, !.emb_ok = ok,
                            !.embeddings = out.embeddings, !.pre = store,
                            !.zero = zero, !.batch_fail = batch_fail]
    /\ UNCHANGED <<index, doc_ids, kw_good, reachable, collection_exists, alpha, loop>>

\* QdrantVectorStore.clear_collection()
ClearCollection(faults) ==
    /\ last.op = "none"
    /\ \E f \in faults :
          LET out == ClearStore(store, reachable, collection_exists, f)
          IN /\ store' = out.store
             /\ collection_exists' = out.exists
             /\ last' = [NoCall EXCEPT !.op = "clear", !.fault = f,
                            !.up = reachable, !.pre = store]
    /\ UNCHANGED <<index, doc_ids, kw_good, reachable, alpha, loop>>

\* QdrantVectorStore.get_chunk_count()
ChunkCountCall ==
    /\ last.op = "none"
    /\ last' = [NoCall EXCEPT !.op = "count", !.up = Answers,
                    !.count = get_chunk_count(store, Answers)]
    /\ UNCHANGED <<store, index, doc_ids, kw_good, reachable, collection_exists,
                   alpha, loop>>

\* HybridRetriever(collection_name, alpha) constructed anew on the collection:
\* the new QdrantVectorStore creates the collection when it is absent; with
\* the backend unreachable the constructor raises and nothing is built
Construct ==
    /\ last.op = "none"
    /\ reachable
    /\ \E f \in BuildFaults :
          LET b == Rebuilt(NoIndex, <<>>, store, reachable, f)
          IN /\ index' = b.index
             /\ doc_ids' = b.doc_ids
             /\ kw_good' = b.kw_good
             /\ last' = [NoCall EXCEPT !.op = "construct", !.fault = f,
                            !.up = reachable, !.pre = store]
    /\ collection_exists' = TRUE
    /\ UNCHANGED <<store, reachable, alpha, loop>>

\* the backend stops answering, and answers again
BackendDown ==
    /\ last.op = "none"
    /\ reachable
    /\ reachable' = FALSE
    /\ UNCHANGED <<store, index, doc_ids, kw_good, collection_exists, alpha, loop, last>>

BackendUp ==
    /\ last.op = "none"
    /\ ~reachable
    /\ reachable' = TRUE
    /\ UNCHANGED <<store, index, doc_ids, kw_good, collection_exists, alpha, loop, last>>

\* the caller takes the result of the call
Return ==
    /\ last.op # "none"
    /\ last' = NoCall
    /\ UNCHANGED <<store, index, doc_ids, kw_good, reachable, collection_exists,
                 alpha, loop>>

(***************************************************************************)
(* Spec: a retriever with the default alpha on a fresh collection, and     *)
(* every operation on it.                                                  *)
(***************************************************************************)
EmptyIndex == [state |-> "empty", corpus |-> EmptyCorpus]

Init ==
    /\ store = EmptyStore
    /\ index = EmptyIndex
    /\ doc_ids = <<>>
    /\ kw_good = [corpus |-> EmptyCorpus, doc_ids |-> <<>>]
    /\ reachable = TRUE
    /\ collection_exists = TRUE
    /\ alpha = DefaultAlphaNum
    /\ loop = NoLoop
    /\ last = NoCall

Next ==
    \/ HybridIndexChunks(SysChunkLists, BuildFaults)
    \/ StoreIndexChunks(SysChunkLists, {{}}, {{}})
    \/ ClearCollection(ClearFaults)
    \/ Construct
    \/ HybridSearchCall(SysQueries, 1, {IdRanking(store)}, Faults)
    \/ BM25SearchCall(SysQueries, 1, {"none", "bm25"})
    \/ VectorSearchCall(SysQueries, {IdRanking(store)}, {"none", "vector"})
    \/ BackendDown
    \/ BackendUp
    \/ Return

Spec == Init /\ [][Next]_vars

(***************************************************************************)
(* SpecSearch: the searches of a retriever whose keyword index was built   *)
(* over three documents, on a collection that holds none to two points     *)
(* (points may have gone since the index was built), for every alpha of    *)
(* Alphas, every score vector of the library and every ranking of the      *)
(* backend.                                                                *)
(***************************************************************************)
SearchChunk ==
    <<[content |-> TxtAa, file_path |-> "a.py"],
      [content |-> TxtBb, file_path |-> "a.py"],
      [content |-> TxtCc, file_path |-> "a.py"]>>

SearchDocIds == {0, 1, 2}

SearchStoreIds == {0, 1}

StoreOver(S) == [i \in S |-> PayloadOf(SearchChunk[i + 1])]

InitSearch ==
    /\ \E k \in 0..Cardinality(SearchStoreIds) :
          store = StoreOver({i \in SearchStoreIds : i < k})
    /\ LET b == _build_index(NoIndex, StoreOver(SearchDocIds), TRUE, <<>>, "none")
       IN /\ index = b.index
          /\ doc_ids = b.doc_ids
          /\ kw_good = [corpus |-> b.index.corpus, doc_ids |-> b.doc_ids]
    /\ reachable = TRUE
    /\ collection_exists = TRUE
    /\ alpha \in Alphas
    /\ loop = NoLoop
    /\ last = NoCall

NextSearch ==
    \/ HybridSearchCall({TxtAaBbCc}, MaxBM25Score, Rankings(store), {"none"})
    \/ Return

SpecSearch == InitSearch /\ [][NextSearch]_vars

(***************************************************************************)
(* SpecIndex: the index_chunks calls of a retriever on a fresh collection, *)
(* with chunks of two files.                                               *)
(***************************************************************************)
IndexChunkSet ==
    {[content |-> TxtAa, file_path |-> "a.py"],
     [content |-> TxtBb, file_path |-> "a.py"],
     [content |-> TxtAaBb, file_path |-> "b.py"]}

NextIndex ==
    \/ HybridIndexChunks(SeqsUpTo(IndexChunkSet, MaxChunks), {"none"})
    \/ Return

SpecIndex == Init /\ [][NextIndex]_vars

(***************************************************************************)
(* SpecFilter: chunks of two files indexed in the store, and searches with *)
(* a file_filter.                                                          *)
(***************************************************************************)
FilterGlobs == {"a.py", "b.py", "*.py"}

NextFilter ==
    \/ StoreIndexChunks(SeqsUpTo(IndexChunkSet, MaxChunks), {{}}, {{}})
    \/ FilterSearchCall({TxtAa}, {IdRanking(store)}, FilterGlobs)
    \/ Return

SpecFilter == Init /\ [][NextFilter]_vars

(***************************************************************************)
(* SpecBatch: QdrantVectorStore.index_chunks on chunk lists of up to       *)
(* MaxBatches full batches and a rest, with failing embeddings and         *)
(* failing batches.                                                        *)
(***************************************************************************)
BatchChunk == [content |-> TxtAa, file_path |-> "a.py"]

BatchLens ==
    {0, 1, BatchSize - 1}
    \cup {k * BatchSize + r : k \in 1..MaxBatches, r \in {0, 1}}

BatchChunkLists == {[i \in 1..n |-> BatchChunk] : n \in BatchLens}

BatchZeroSets == {{}, {1}}

BatchFailSets == {{}} \cup {{b} : b \in 0..MaxBatches}

NextBatch ==
    \/ StoreIndexChunks(BatchChunkLists, BatchZeroSets, BatchFailSets)
    \/ Return

SpecBatch == Init /\ [][NextBatch]_vars

(***************************************************************************)
(* Properties.                                                             *)
(***************************************************************************)
IdSet(results) == {results[i].id : i \in 1..Len(results)}

\* the position of the entry with this id, 0 when there is none
PosOf(results, id) ==
    IF id \in IdSet(results)
    THEN CHOOSE i \in 1..Len(results) : results[i].id = id
    ELSE 0

\* the min-max normalized score of document id in a result list, 0 when the
\* list does not hold it
NormExpected(results, id) ==
    IF id \notin IdSet(results) THEN RZero
    ELSE LET all == {results[i].score : i \in 1..Len(results)}
             lo == CHOOSE x \in all : \A y \in all : RLe(x, y)
             hi == CHOOSE x \in all : \A y \in all : RLe(y, x)
             own == results[PosOf(results, id)].score
         IN IF REq(lo, hi) THEN ROne
            ELSE R((own.n - lo.n), (hi.n - lo.n))

HybridDone == last.op = "search" /\ last.fused_ok

\* the fused list holds every id of either result list once, with the
\* weighted sum of its normalized scores
FusedIsUnion ==
    LET f == last.fused
        B == last.bm25_results
        V == last.vector_results
    IN /\ NoDup(Ids(f))
       /\ IdSet(f) = IdSet(B) \cup IdSet(V)
       /\ \A i \in 1..Len(f) :
             REq(f[i].score,
                 RAdd(RMul(R(AlphaDen - alpha, AlphaDen), NormExpected(B, f[i].id)),
                      RMul(R(alpha, AlphaDen), NormExpected(V, f[i].id))))

\* C1 as amended: the fused candidate list of a hybrid search holds exactly one
\* entry for each id of the BM25 list or of the vector list, scored
\* (1 - alpha) * normalized BM25 score + alpha * normalized vector score with 0
\* for a missing side; and when there are at most top_k candidates (as with
\* one BM25-only and one vector-only document and top_k >= 2), every candidate
\* is in the returned list.
C1_FusedCandidates ==
    HybridDone =>
        /\ FusedIsUnion
        /\ Len(last.fused) <= last.top_k => IdSet(last.result) = IdSet(last.fused)

\* C1 witness: alpha = 0.5, top_k = 2, one document found by BM25 only and
\* another by the vector search only, and both are returned.
C1_Witness ==
    /\ HybridDone
    /\ alpha = 5
    /\ last.top_k = 2
    /\ Len(last.bm25_results) = 1
    /\ Len(last.vector_results) = 1
    /\ last.bm25_results[1].id # last.vector_results[1].id
    /\ IdSet(last.result) = {last.bm25_results[1].id, last.vector_results[1].id}

\* C1 as claimed: ..., and with alpha = 0.5 and top_k >= 2 a document found
\* only by BM25 and a different document found only by the vector search are
\* both in the returned list.
C1_AsClaimed ==
    HybridDone =>
        /\ FusedIsUnion
        /\ (alpha = 5 /\ last.top_k >= 2) =>
              \A a \in IdSet(last.bm25_results) \ IdSet(last.vector_results),
                 b \in IdSet(last.vector_results) \ IdSet(last.bm25_results) :
                 {a, b} \subseteq IdSet(last.result)

\* C2 as claimed: with alpha = 0 a hybrid search returns the ids that
\* BM25Retriever.search(query, top_k) returns, in the same order, and with
\* alpha = 1 those that QdrantVectorStore.search(query, top_k) returns
\* (top_k >= 1).
C2_AsClaimed ==
    (HybridDone /\ last.top_k >= 1) =>
        /\ alpha = 0 =>
              Ids(last.result)
                = Ids(BM25Search(index, doc_ids, last.query, last.top_k,
                                 last.scores, last.perm, FALSE))
        /\ alpha = AlphaDen =>
              Ids(last.result)
                = Ids(VectorSearch(store, Answers, last.top_k, last.ranking,
                                   FALSE))

\* the ids in insertion order: the BM25 results in BM25 order, then the
\* vector results that are no BM25 result in vector order
InsertionOrder ==
    Ids(last.bm25_results)
    \o SelectSeq(Ids(last.vector_results),
                 LAMBDA id : id \notin IdSet(last.bm25_results))

\* C10: a hybrid search returns min(top_k, number of distinct candidate ids)
\* results by non-increasing fused score, no candidate left out scores above a
\* returned one, and candidates of equal score keep their insertion order
\* (BM25 results in BM25 order, then vector-only results in vector order).
C10_TopKOrder ==
    HybridDone =>
        LET f == last.fused
            res == last.result
            cand == IdSet(last.bm25_results) \cup IdSet(last.vector_results)
        IN /\ Len(res) = Min2(last.top_k, Cardinality(cand))
           /\ NoDup(Ids(res))
           /\ Ids(f) = InsertionOrder
           /\ \A i \in 1..Len(res) :
                 /\ res[i].id \in IdSet(f)
                 /\ res[i].score = f[PosOf(f, res[i].id)].score
           /\ \A i \in 1..(Len(res) - 1) : RLe(res[i + 1].score, res[i].score)
           /\ \A i, j \in 1..Len(res) :
                 (i < j /\ REq(res[i].score, res[j].score))
                     => PosOf(f, res[i].id) < PosOf(f, res[j].id)
           /\ \A j \in 1..Len(f) :
                 f[j].id \notin IdSet(res) =>
                    \A i \in 1..Len(res) :
                       /\ RLe(f[j].score, res[i].score)
                       /\ REq(f[j].score, res[i].score)
                             => PosOf(f, res[i].id) < j

\* C10 witness: three or more candidates, two returned with equal score, and
\* a candidate of that same score left out.
C10_Witness ==
    /\ HybridDone
    /\ last.top_k = 2
    /\ Len(last.result) = 2
    /\ REq(last.result[1].score, last.result[2].score)
    /\ \E j \in 1..Len(last.fused) :
          /\ last.fused[j].id \notin IdSet(last.result)
          /\ REq(last.fused[j].score, last.result[2].score)
    /\ IdSet(last.vector_results) \ IdSet(last.bm25_results) # {}


(***************************************************************************)
(* Degradation, empty collections and failures of search (Spec).           *)
(***************************************************************************)
\* res is a keyword-only answer for the scores sc of the documents dids:
\* min(top_k, number of matching documents) distinct matching documents, and
\* no matching document left out scores above a returned one
KeywordMatches(res, dids, sc, top_k) ==
    LET pos == {i \in 1..Len(sc) : sc[i] > 0}
    IN /\ NoDup(Ids(res))
       /\ Len(res) = Min2(top_k, Cardinality(pos))
       /\ \A r \in 1..Len(res) : \E i \in pos : dids[i] = res[r].id
       /\ \A i \in pos :
              dids[i] \notin IdSet(res) =>
                  \A r \in 1..Len(res) :
                      \E j \in pos : dids[j] = res[r].id /\ sc[i] <= sc[j]

OutageSearch == last.op = "search" /\ ~last.up /\ last.fault = "none"

\* C3 (amended): a search while the vector backend is unreachable does not
\* raise and returns the keyword matches of the index, provided the latest
\* rebuild of the keyword index succeeded (the index is still there).
C3_DegradesToBM25 ==
    (OutageSearch /\ index.state # "none") =>
        /\ ~last.raised
        /\ KeywordMatches(last.result, doc_ids, last.scores, last.top_k)
        /\ last.vector_results = <<>>

C3_Witness ==
    /\ OutageSearch
    /\ index.state = "built"
    /\ last.top_k >= 1
    /\ Len(last.result) >= 1

\* C3 as claimed: whatever happened since the keyword index was built over a
\* non-empty store, a search during an outage returns its keyword matches.
C3_AsClaimed ==
    (OutageSearch /\ kw_good.corpus # EmptyCorpus) =>
        /\ ~last.raised
        /\ KeywordMatches(last.result, kw_good.doc_ids, last.scores, last.top_k)

\* C4 as claimed: on an empty collection (after clear_collection too) every
\* search returns an empty list and raises nothing.
C4_AsClaimed ==
    (last.op \in {"search", "bm25", "vector"} /\ last.fault = "none"
        /\ DOMAIN store = {}) =>
        last.result = <<>> /\ ~last.raised

\* C8 (amended): search never raises; an exception that reaches its own
\* handler (fusion, sort) gives []; a failed sub-search contributes nothing
\* and the other one's results are returned; a failed payload lookup returns
\* the results as they were fused.
C8_NeverRaises ==
    last.op = "search" =>
        /\ ~last.raised
        /\ (last.fault \in {"fuse", "sort"} => last.result = <<>>)
        /\ (last.fault = "vector" =>
               /\ last.vector_results = <<>>
               /\ IdSet(last.result) \subseteq IdSet(last.bm25_results)
               /\ Len(last.result) = Min2(last.top_k, Len(last.bm25_results)))
        /\ (last.fault = "bm25" =>
               /\ last.bm25_results = <<>>
               /\ IdSet(last.result) \subseteq IdSet(last.vector_results)
               /\ Len(last.result) = Min2(last.top_k, Len(last.vector_results)))
        /\ (last.fault = "retrieve" =>
               /\ Len(last.result) = Min2(last.top_k, Len(last.fused))
               /\ \A r \in 1..Len(last.result) :
                      \E f \in 1..Len(last.fused) : last.fused[f] = last.result[r])

C8_Witness ==
    /\ last.op = "search"
    /\ last.fault = "retrieve"
    /\ last.up
    /\ ~last.raised
    /\ \E r \in 1..Len(last.result) : last.result[r].payload = NoKey

\* C8 as claimed: search never raises, and every failure outside the payload
\* lookup gives an empty list.
C8_AsClaimed ==
    last.op = "search" =>
        /\ ~last.raised
        /\ (last.fault \in {"bm25", "vector", "fuse", "sort"} =>
               last.result = <<>>)

\* C9 as claimed: an exception in the fusion logic is raised again to the
\* caller of search, and search raises in that case only.
C9_AsClaimed ==
    last.op = "search" => (last.raised <=> last.fault = "fuse")

(***************************************************************************)
(* Re-indexing (SpecIndex).                                                *)
(***************************************************************************)
FilesOf(chunks) == {chunks[i].file_path : i \in 1..Len(chunks)}

PointsOfFile(st, f) == {i \in DOMAIN st : st[i].file_path = f}

ChunksOfFile(chunks, f) == {i \in 1..Len(chunks) : chunks[i].file_path = f}

IndexDone == last.op = "index" /\ last.up /\ last.emb_ok

\* C5 as claimed: after a file that was indexed before is indexed again, its
\* points are those of the latest run, one per chunk, and the points of the
\* other files are as they were.
C5_AsClaimed ==
    IndexDone =>
        /\ \A f \in FilesOf(last.chunks) :
               PointsOfFile(last.pre, f) # {} =>
                   /\ Cardinality(PointsOfFile(store, f))
                          = Cardinality(ChunksOfFile(last.chunks, f))
                   /\ \A i \in PointsOfFile(store, f) :
                          \E c \in ChunksOfFile(last.chunks, f) :
                              store[i].content = last.chunks[c].content
        /\ \A i \in DOMAIN last.pre :
               last.pre[i].file_path \notin FilesOf(last.chunks) =>
                   i \in DOMAIN store /\ store[i] = last.pre[i]

(***************************************************************************)
(* Batches and embedding failures (SpecBatch).                             *)
(***************************************************************************)
StoreIndexDone == last.op = "vs_index"

\* the chunk positions (from 0) whose embedding is not all zeros
EmbeddedIds == {i - 1 : i \in {j \in 1..Len(last.embeddings) :
                                  \E d \in 1..Len(last.embeddings[j]) :
                                      last.embeddings[j][d] # 0}}

CeilDiv(n, d) == (n + d - 1) \div d

RECURSIVE SumSizes(_, _)
SumSizes(upserts, i) ==
    IF i > Len(upserts) THEN 0
    ELSE (IF upserts[i].ok THEN upserts[i].size ELSE 0) + SumSizes(upserts, i + 1)

\* C6: the points are upserted in input order in consecutive batches of at
\* most 100; a failed batch does not stop the later ones; the call returns
\* the total of the points of the batches that succeeded (len(chunks) when
\* all succeed and no embedding is zero, 0 for an empty list) and raises
\* nothing.
C6_BatchesAndCount ==
    StoreIndexDone =>
        LET n == Cardinality(EmbeddedIds)
            ups == last.upserts
        IN /\ ~last.raised
           /\ Len(ups) = CeilDiv(n, BatchSize)
           /\ \A b \in 1..Len(ups) :
                  /\ ups[b].size = Min2(BatchSize, n - (b - 1) * BatchSize)
                  /\ ups[b].size >= 1 /\ ups[b].size <= BatchSize
                  /\ ups[b].first \in EmbeddedIds
                  /\ Cardinality({i \in EmbeddedIds : i < ups[b].first})
                         = (b - 1) * BatchSize
                  /\ ups[b].ok = (last.up /\ (b - 1) \notin last.batch_fail)
           /\ last.count = SumSizes(ups, 1)
           /\ ((n = Len(last.chunks) /\ \A b \in 1..Len(ups) : ups[b].ok)
                  => last.count = Len(last.chunks))
           /\ (last.chunks = <<>> => last.count = 0 /\ ups = <<>>)

C6_Witness ==
    /\ StoreIndexDone
    /\ Len(last.upserts) >= 2
    /\ ~last.upserts[1].ok
    /\ last.upserts[2].ok
    /\ last.count = last.upserts[2].size
    /\ last.count >= 1

\* C7: when the embedding model fails, generate_embeddings returns one
\* all-zero vector of the model's dimension per text, and index_chunks
\* returns 0, upserts nothing and leaves the store as it was.
C7_EmbeddingFailure ==
    (StoreIndexDone /\ ~last.emb_ok /\ last.chunks # <<>>) =>
        /\ Len(last.embeddings) = Len(last.chunks)
        /\ \A i \in 1..Len(last.embeddings) :
               /\ Len(last.embeddings[i]) = EmbDim
               /\ \A d \in 1..EmbDim : last.embeddings[i][d] = 0
        /\ last.count = 0
        /\ last.upserts = <<>>
        /\ store = last.pre
        /\ ~last.raised

C7_Witness ==
    /\ StoreIndexDone
    /\ ~last.emb_ok
    /\ Len(last.chunks) >= 1
    /\ DOMAIN last.pre # {}
    /\ last.count = 0
    /\ store = last.pre

(***************************************************************************)
(* Normalization (SpecSearch).                                             *)
(***************************************************************************)
\* the normalized score the fusion used for the entry of id on one side:
\* bm25_score or vector_score of the fused entry
SideNorm(side, id) ==
    LET f == last.fused[PosOf(last.fused, id)]
    IN IF side = "bm25" THEN f.bm25_score ELSE f.vector_score

\* the normalized scores of one result list are its min-max normalization
NormalizedSide(side, results) ==
    LET n == Len(results)
        sc(i) == results[i].score
        nm(i) == SideNorm(side, results[i].id)
        equal == \A i, j \in 1..n : REq(sc(i), sc(j))
    IN /\ \A i \in 1..n : results[i].id \in IdSet(last.fused)
       /\ equal => \A i \in 1..n : REq(nm(i), ROne)
       /\ ~equal =>
             \E lo, hi \in 1..n :
                /\ \A i \in 1..n : RLe(sc(lo), sc(i)) /\ RLe(sc(i), sc(hi))
                /\ REq(nm(lo), RZero)
                /\ REq(nm(hi), ROne)
                /\ \A i \in 1..n :
                      REq(RMul(nm(i), RSub(sc(hi), sc(lo))), RSub(sc(i), sc(lo)))
       /\ \A i \in 1..n : RLe(RZero, nm(i)) /\ RLe(nm(i), ROne)
       /\ \A i, j \in 1..n : RLe(sc(i), sc(j)) => RLe(nm(i), nm(j))

\* C11: min-max normalization: an empty list stays empty and raises nothing;
\* equal scores (a single one too) all become 1.0; otherwise each becomes
\* (score - min) / (max - min), within [0,1], the maximum 1, the minimum 0,
\* the order kept; each list is normalized from its own scores only.
C11_Normalization ==
    (last.op = "search" /\ last.fault = "none") =>
        /\ last.fused_ok /\ ~last.raised
        /\ NormalizedSide("bm25", last.bm25_results)
        /\ NormalizedSide("vector", last.vector_results)
        /\ last.bm25_results = <<>> =>
              \A i \in 1..Len(last.fused) : REq(last.fused[i].bm25_score, RZero)
        /\ last.vector_results = <<>> =>
              \A i \in 1..Len(last.fused) : REq(last.fused[i].vector_score, RZero)

\* C11 witness: BM25 scores that differ, normalized to 0 and 1, beside vector
\* scores that are all equal, normalized to 1.
C11_Witness ==
    /\ HybridDone
    /\ Len(last.bm25_results) >= 2
    /\ \E i, j \in 1..Len(last.bm25_results) :
          /\ RLt(last.bm25_results[i].score, last.bm25_results[j].score)
          /\ REq(SideNorm("bm25", last.bm25_results[i].id), RZero)
          /\ REq(SideNorm("bm25", last.bm25_results[j].id), ROne)
    /\ Len(last.vector_results) >= 1
    /\ \A i \in 1..Len(last.vector_results) :
          REq(SideNorm("vector", last.vector_results[i].id), ROne)

(***************************************************************************)
(* BM25Retriever.search and QdrantVectorStore.search called directly       *)
(* (Spec).                                                                 *)
(***************************************************************************)
BM25Done == last.op = "bm25" /\ last.fault = "none"

\* the results are documents of the index with their positive scores, by
\* non-increasing score, and no document left out scores above a returned one
BestPositive(res, dids, sc) ==
    /\ NoDup(Ids(res))
    /\ \A r \in 1..Len(res) :
          /\ RLt(RZero, res[r].score)
          /\ \E i \in 1..Len(sc) :
                i \in DOMAIN dids /\ dids[i] = res[r].id /\ res[r].score = R(sc[i], 1)
    /\ \A r \in 1..(Len(res) - 1) : RLe(res[r + 1].score, res[r].score)
    /\ \A i \in 1..Len(sc) :
          (sc[i] > 0 /\ i \in DOMAIN dids /\ dids[i] \notin IdSet(res)) =>
              \A r \in 1..Len(res) : RLe(R(sc[i], 1), res[r].score)

\* C12 as claimed: for every top_k >= 0 BM25Retriever.search returns at most
\* top_k results, each of score > 0, by non-increasing score, the
\* highest-scoring documents of the corpus; a query without a valid token
\* returns [].
C12_AsClaimed ==
    (BM25Done /\ index.state # "none") =>
        /\ Len(last.result) <= last.top_k
        /\ BestPositive(last.result, doc_ids, last.scores)
        /\ QueryTokens(last.query) = <<>> => last.result = <<>>

VectorDone == last.op = "vector"

\* C13: QdrantVectorStore.search never raises; when the embedding of the
\* query or the backend call fails it returns []; otherwise it returns at
\* most top_k results, the first of the backend's ranking in its order, each
\* with the id, the score and the payload of its point.
C13_VectorSearchNeverRaises ==
    VectorDone =>
        /\ ~last.raised
        /\ (~last.up \/ last.fault = "vector") => last.result = <<>>
        /\ (last.up /\ last.fault = "none") =>
              /\ Len(last.result) <= last.top_k
              /\ Len(last.result) = Min2(last.top_k, Len(last.ranking))
              /\ \A i \in 1..Len(last.result) :
                    /\ last.result[i].id = last.ranking[i][1]
                    /\ last.result[i].score = R(last.ranking[i][2], 1)
                    /\ last.result[i].id \in DOMAIN store
                    /\ last.result[i].payload = <<store[last.result[i].id]>>

\* C13 witness: the query embedding or the backend call raises while the
\* backend holds points that would have been returned.
C13_Witness ==
    /\ VectorDone
    /\ last.up
    /\ last.fault = "vector"
    /\ last.top_k >= 1
    /\ DOMAIN store # {}
    /\ last.result = <<>>
    /\ ~last.raised

(***************************************************************************)
(* Searches with a file_filter (SpecFilter).                               *)
(***************************************************************************)
\* fnmatch.fnmatch(path, glob) for the globs of FilterGlobs
GlobMatches(path, glob) == IF glob = "*.py" THEN TRUE ELSE path = glob

FilterDone == last.op = "vector_filter" /\ last.up

\* C14 as claimed: a search with a file_filter returns the nearest points whose
\* file path matches the glob, none whose path does not match, and a non-empty
\* list when matching points exist.
C14_AsClaimed ==
    (FilterDone /\ last.top_k >= 1) =>
        LET matching == SelectSeq(last.ranking,
                                  LAMBDA h : GlobMatches(store[h[1]].file_path,
                                                         last.file_filter))
        IN /\ Ids(last.result)
                = [i \in 1..Min2(last.top_k, Len(matching)) |-> matching[i][1]]
           /\ \A i \in 1..Len(last.result) :
                 GlobMatches(last.result[i].payload[1].file_path, last.file_filter)
           /\ matching # <<>> => last.result # <<>>


(***************************************************************************)
(* SpecChunk: chunk_code on every short text over a small alphabet and on  *)
(* a few longer Python texts, for small chunk sizes and the default one.   *)
(***************************************************************************)
ChunkAlphabet == {"a", "b", " ", "\n"}

\* "def foo():\n    return 1\n\ndef bar():\n    return 2"
FiveLineText ==
    <<"d", "e", "f", " ", "f", "o", "o", "(", ")", ":", "\n",
      " ", " ", " ", " ", "r", "e", "t", "u", "r", "n", " ", "1", "\n",
      "\n",
      "d", "e", "f", " ", "b", "a", "r", "(", ")", ":", "\n",
      " ", " ", " ", " ", "r", "e", "t", "u", "r", "n", " ", "2">>

\* "a\n    b\n    a b"
IndentedText ==
    <<"a", "\n", " ", " ", " ", " ", "b", "\n", " ", " ", " ", " ", "a", " ", "b">>

\* "class a\n    def b\ndef a"
ClassText ==
    <<"c", "l", "a", "s", "s", " ", "a", "\n", " ", " ", " ", " ",
      "d", "e", "f", " ", "b", "\n", "d", "e", "f", " ", "a">>

ChunkTexts ==
    SeqsUpTo(ChunkAlphabet, MaxTextLen) \cup {FiveLineText, IndentedText, ClassText}

ChunkSizes == (1..MaxChunkSize) \cup {DefaultChunkSize}

\* the overlaps the splitter accepts for a chunk size: none above it
ChunkOverlaps(chunk_size) ==
    IF chunk_size <= MaxChunkSize THEN 0..chunk_size
    ELSE {0, DefaultChunkOverlap}

\* CodeChunker("python", chunk_size, chunk_overlap).chunk_code(code, file_path)
ChunkCodeCall(texts, sizes) ==
    /\ last.op = "none"
    /\ \E code \in texts, chunk_size \in sizes :
       \E chunk_overlap \in ChunkOverlaps(chunk_size) :
          last' = [NoCall EXCEPT !.op = "chunk", !.code = code,
                      !.chunk_size = chunk_size,
                      !.chunk_overlap = chunk_overlap,
                      !.documents = create_documents(code, chunk_size,
                                                     chunk_overlap),
                      !.result = chunk_code(code, chunk_size, chunk_overlap)]
    /\ UNCHANGED <<store, index, doc_ids, kw_good, reachable, collection_exists,
                   alpha, loop>>

NextChunk ==
    \/ ChunkCodeCall(ChunkTexts, ChunkSizes)
    \/ Return

SpecChunk == Init /\ [][NextChunk]_vars

(***************************************************************************)
(* SpecClear: a store that is filled, counted, searched and cleared, with  *)
(* the failures clear_collection can meet.                                 *)
(***************************************************************************)
NextClear ==
    \/ StoreIndexChunks(SysChunkLists, {{}}, {{}})
    \/ ClearCollection(ClearFaults)
    \/ ChunkCountCall
    \/ VectorSearchCall({TxtAa}, {IdRanking(store)}, {"none"})
    \/ Construct
    \/ BackendDown
    \/ BackendUp
    \/ Return

SpecClear == Init /\ [][NextClear]_vars

(***************************************************************************)
(* C16: clear_collection.                                                  *)
(***************************************************************************)
\* C16 as claimed: after any clear_collection call has returned the
\* collection exists and holds zero points; no outcome leaves it absent.
C16_AsClaimed ==
    last.op = "clear" => collection_exists /\ store = EmptyStore

(***************************************************************************)
(* C15: a failed build of the keyword index.                               *)
(***************************************************************************)
\* the build of the call just made met an exception: the backend did not
\* answer, the library or the scroll raised, the payload of a point was
\* malformed, or BM25Okapi raised on a corpus without tokens
BuildFailed ==
    /\ last.op \in {"index", "construct"}
    /\ \/ ~last.up
       \/ last.fault \in {"import", "scroll"}
       \/ /\ store # EmptyStore
          /\ \/ last.fault = "payload"
             \/ \A id \in DOMAIN store : DocTokens(store[id]) = <<>>

\* the index is unavailable after a failed build and nothing was raised; a
\* keyword search on an unavailable index answers [] without raising
C15_AfterFailure ==
    /\ BuildFailed => index.state = "none" /\ ~last.raised
    /\ last.op = "bm25" /\ index.state = "none" =>
          last.result = <<>> /\ ~last.raised

\* an unavailable index stays unavailable until a build succeeds
C15_UntilRebuild ==
    index.state = "none" /\ index'.state # "none" =>
        last'.op \in {"index", "construct"} /\ ~BuildFailed'

\* C15: when the build of the keyword index fails (library missing, scroll
\* error, malformed payload, backend unreachable), _build_index, the
\* constructor and index_chunks raise nothing, the index is left unavailable,
\* and every BM25Retriever.search returns [] without raising until a build
\* succeeds.
C15_BuildFailure == []C15_AfterFailure /\ [][C15_UntilRebuild]_vars

\* a keyword search after a build failed on an index that had been built: the
\* library would have scored a document above zero, and the answer is []
C15_Witness ==
    /\ last.op = "bm25"
    /\ last.fault = "none"
    /\ last.top_k > 0
    /\ index.state = "none"
    /\ kw_good.corpus # EmptyCorpus
    /\ \E i \in DOMAIN last.scores : last.scores[i] > 0
    /\ last.result = <<>>


(***************************************************************************)
(* C17: the line numbers of the chunks.                                    *)
(***************************************************************************)
ChunkDone == last.op = "chunk"

\* the number of newline characters of a text
Newlines(t) == Cardinality({i \in DOMAIN t : t[i] = "\n"})

\* C17: the first chunk of chunk_code starts on line 1, every later chunk
\* starts on the line after the end_line of the chunk before, and end_line is
\* start_line plus the number of newlines of the content; so start_line
\* increases strictly, end_line >= start_line and no two line ranges overlap.
C17_LineNumbers ==
    ChunkDone =>
        LET r == last.result
        IN /\ r # <<>> => r[1].start_line = 1
           /\ \A k \in 2..Len(r) : r[k].start_line = r[k - 1].end_line + 1
           /\ \A k \in 1..Len(r) :
                 /\ r[k].end_line = r[k].start_line + Newlines(r[k].content)
                 /\ r[k].end_line >= r[k].start_line
           /\ \A j, k \in 1..Len(r) :
                 j < k => /\ r[j].start_line < r[k].start_line
                          /\ r[j].end_line < r[k].start_line

\* several chunks, one of them of several lines and not the last
C17_Witness ==
    /\ ChunkDone
    /\ Len(last.result) >= 2
    /\ \E k \in 1..(Len(last.result) - 1) :
          last.result[k].end_line > last.result[k].start_line


(***************************************************************************)
(* C18: the five-line text with the default chunk size.                    *)
(***************************************************************************)
FiveLineDone ==
    /\ ChunkDone
    /\ last.code = FiveLineText
    /\ last.chunk_size = DefaultChunkSize

C19_SizeBound ==
    ChunkDone =>
        \A k \in 1..Len(last.result) :
            \/ Len(last.result[k].content) <= last.chunk_size
            \/ Len(last.result[k].content) = 1

\* a text longer than chunk_size without any whitespace, returned as several
\* chunks, one of them of exactly chunk_size characters
C19_Witness ==
    /\ ChunkDone
    /\ last.chunk_size >= 2
    /\ Len(last.code) > last.chunk_size
    /\ \A i \in DOMAIN last.code : ~IsSpace(last.code[i])
    /\ Len(last.result) >= 2
    /\ \E k \in 1..Len(last.result) :
          Len(last.result[k].content) = last.chunk_size


(***************************************************************************)
(* C20: the chunks cover the text.                                         *)
(***************************************************************************)
AllSpace(t) == \A i \in DOMAIN t : IsSpace(t[i])

\* the last k characters of t
Suffix(t, k) == SubSeq(t, Len(t) - k + 1, Len(t))

\* the chunks from the i-th on reproduce rest, the text not yet covered: for
\* an overlap of k characters that chunk i repeats from the end of chunk
\* i - 1, and g characters of whitespace stripped between the two chunks, what
\* is left of chunk i stands next in the text; after the last chunk only
\* whitespace is left
RECURSIVE Covers(_, _, _)
Covers(rest, chunks, i) ==
    IF i > Len(chunks) THEN AllSpace(rest)
    ELSE LET c == chunks[i].content
             maxk == IF i = 1 THEN 0 ELSE Min2(Len(c), Len(chunks[i - 1].content))
         IN \E k \in 0..maxk, g \in 0..Len(rest) :
               /\ k > 0 => SubSeq(c, 1, k) = Suffix(chunks[i - 1].content, k)
               /\ AllSpace(SubSeq(rest, 1, g))
               /\ OccursAt(rest, SubSeq(c, k + 1, Len(c)), g + 1)
               /\ Covers(SubSeq(rest, g + 1 + Len(c) - k, Len(rest)), chunks, i + 1)

\* C20: the contents of the chunks of chunk_code, in order and without the
\* overlap a chunk repeats from the chunk before, reproduce the text up to the
\* whitespace stripped at the ends of the chunks: no character that is not
\* whitespace is lost, duplicated or reordered.
C20_Coverage == ChunkDone => Covers(last.code, last.result, 1)


\* the number of characters of t that are not whitespace
NonSpace(t) == Cardinality({i \in DOMAIN t : ~IsSpace(t[i])})

RECURSIVE NonSpaceOfChunks(_, _)
NonSpaceOfChunks(chunks, i) ==
    IF i > Len(chunks) THEN 0
    ELSE NonSpace(chunks[i].content) + NonSpaceOfChunks(chunks, i + 1)

\* a text returned as three chunks or more that repeat characters of the
\* text in their overlaps, with whitespace stripped at the start of the text
C20_Witness ==
    /\ ChunkDone
    /\ last.chunk_overlap > 0
    /\ Len(last.result) >= 3
    /\ NonSpaceOfChunks(last.result, 1) > NonSpace(last.code)
    /\ last.code # <<>> /\ IsSpace(last.code[1])


(***************************************************************************)
(* SpecClassify: _classify_chunk on contents of one or two lines.          *)
(***************************************************************************)
\* 'class a'
LineClass == <<"c", "l", "a", "s", "s", " ", "a">>
\* 'def a'
LineDef == <<"d", "e", "f", " ", "a">>
\* 'async def a'
LineAsyncDef == <<"a", "s", "y", "n", "c", " ", "d", "e", "f", " ", "a">>
\* 'def __init__('
LineInit == <<"d", "e", "f", " ", "_", "_", "i", "n", "i", "t", "_", "_", "(">>
\* 'a def __init__('
LineInitAfter == <<"a", " ", "d", "e", "f", " ", "_", "_", "i", "n", "i", "t", "_", "_", "(">>
\* 'import a'
LineImport == <<"i", "m", "p", "o", "r", "t", " ", "a">>
\* 'from a'
LineFrom == <<"f", "r", "o", "m", " ", "a">>
\* 'if __name__'
LineIfName == <<"i", "f", " ", "_", "_", "n", "a", "m", "e", "_", "_">>
\* 'a'
LinePlain == <<"a">>
\* '    def a'
LineIndentedDef == <<" ", " ", " ", " ", "d", "e", "f", " ", "a">>
\* ' '
LineBlank == <<" ">>
\* ''
LineEmpty == <<>>

ClassifyLines ==
    {LineClass, LineDef, LineAsyncDef, LineInit, LineInitAfter, LineImport, LineFrom, LineIfName, LinePlain, LineIndentedDef, LineBlank, LineEmpty}

\* the contents classified: one line, or two lines joined by a newline
ClassifyContents ==
    ClassifyLines \cup {a \o <<"\n">> \o b : a \in ClassifyLines, b \in ClassifyLines}

\* CodeChunker._classify_chunk(content)
ClassifyCall(contents) ==
    /\ last.op = "none"
    /\ \E content \in contents :
          last' = [NoCall EXCEPT !.op = "classify", !.code = content,
                      !.kind = _classify_chunk(content)]
    /\ UNCHANGED <<store, index, doc_ids, kw_good, reachable, collection_exists,
                   alpha, loop>>

NextClassify ==
    \/ ClassifyCall(ClassifyContents)
    \/ Return

SpecClassify == Init /\ [][NextClassify]_vars

(***************************************************************************)
(* C21: the classification of a chunk.                                     *)
(***************************************************************************)
ClassifyDone == last.op = "classify"

\* the lines of a content that are not blank, stripped
FilledLines(content) ==
    LET lines == SplitLines(content, 1, <<>>)
        filled == SelectSeq(lines, LAMBDA l : Strip(l) # <<>>)
    IN [k \in 1..Len(filled) |-> Strip(filled[k])]

\* the kind the claim gives a line: every line with '__init__(' and 'def '
\* is a constructor
ClaimedKind(line) ==
    IF Contains(line, KwInit) /\ Contains(line, KwDef) THEN "constructor"
    ELSE IF StartsWith(line, KwClass) THEN "class"
    ELSE IF StartsWith(line, KwDef) THEN "function"
    ELSE IF StartsWith(line, KwAsyncDef) THEN "async_function"
    ELSE IF Contains(line, KwImport) \/ Contains(line, KwFrom)
            \/ Contains(line, KwIfName)
         THEN "module_setup"
    ELSE "code_block"

\* C21 as claimed: the kind is decided by the first non-blank line: 'class '
\* first gives class, 'def ' function, 'async def ' async_function, every
\* line with both '__init__(' and 'def ' constructor, a line with 'import ',
\* 'from ' or 'if __name__' module_setup, any other line code_block, and a
\* content without a non-blank line unknown.
C21_AsClaimed ==
    ClassifyDone =>
        LET filled == FilledLines(last.code)
        IN last.kind = IF filled = <<>> THEN "unknown"
                       ELSE ClaimedKind(filled[1])


(***************************************************************************)
(* SpecFile: chunk_file and the chunking loop of scripts/index_codebase.py *)
(* on files that can and cannot be read.                                   *)
(***************************************************************************)
\* what open() and read() meet at a path: a readable text, no file
\* (FileNotFoundError), bytes that are not UTF-8 (UnicodeDecodeError), no
\* permission (PermissionError), a directory (IsADirectoryError)
FileKinds == {"text", "missing", "undecodable", "denied", "directory"}

\* the exceptions chunk_file catches, by the kind of file that raises them
CaughtKinds == {"missing", "undecodable"}

\* a chunk_file that catches every exception of open() and read()
chunk_file_CatchesAll(file) ==
    IF file.kind = "text"
    THEN [raised |-> FALSE,
          chunks |-> chunk_code(file.text, DefaultChunkSize, DefaultChunkOverlap)]
    ELSE [raised |-> FALSE, chunks |-> <<>>]

\* CodeChunker(chunk_size=1000, chunk_overlap=100).chunk_file(file_path)
chunk_file(file) ==
    IF file.kind = "text"
    THEN [raised |-> FALSE,
          chunks |-> chunk_code(file.text, DefaultChunkSize, DefaultChunkOverlap)]
    ELSE IF file.kind \in CaughtKinds
         THEN [raised |-> FALSE, chunks |-> <<>>]
         ELSE [raised |-> TRUE, chunks |-> <<>>]

\* the loop of main over python_files: the chunks of every file are added to
\* all_chunks, a file whose chunk_file raises is added to failed_files
RECURSIVE ChunkingLoop(_, _, _, _)
ChunkingLoop(python_files, i, all_chunks, failed_files) ==
    IF i > Len(python_files)
    THEN [all_chunks |-> all_chunks, failed_files |-> failed_files]
    ELSE LET out == chunk_file(python_files[i])
         IN IF out.raised
            THEN ChunkingLoop(python_files, i + 1, all_chunks,
                              Append(failed_files, i))
            ELSE ChunkingLoop(python_files, i + 1, all_chunks \o out.chunks,
                              failed_files)

\* the files of the specification: two texts and one file of every other kind
SysFiles ==
    {[kind |-> "text", text |-> t] : t \in {TxtAa, TxtAaBb}}
    \cup {[kind |-> k, text |-> <<>>] : k \in FileKinds \ {"text"}}

\* chunker.chunk_file(file_path)
ChunkFileCall(files) ==
    /\ last.op = "none"
    /\ \E file \in files :
          LET out == chunk_file(file)
          IN last' = [NoCall EXCEPT !.op = "chunk_file", !.files = <<file>>,
                         !.raised = out.raised, !.result = out.chunks]
    /\ UNCHANGED <<store, index, doc_ids, kw_good, reachable, collection_exists,
                   alpha, loop>>

\* the chunking loop of main in scripts/index_codebase.py
ChunkingRun(files, maxlen) ==
    /\ last.op = "none"
    /\ \E python_files \in SeqsUpTo(files, maxlen) :
          LET out == ChunkingLoop(python_files, 1, <<>>, <<>>)
          IN last' = [NoCall EXCEPT !.op = "chunking_run",
                         !.files = python_files,
                         !.result = out.all_chunks,
                         !.failed_files = out.failed_files]
    /\ UNCHANGED <<store, index, doc_ids, kw_good, reachable, collection_exists,
                   alpha, loop>>

NextFile ==
    \/ ChunkFileCall(SysFiles)
    \/ ChunkingRun(SysFiles, MaxFiles)
    \/ Return

SpecFile == Init /\ [][NextFile]_vars

(***************************************************************************)
(* C22: files that cannot be read.                                         *)
(***************************************************************************)
\* C22 as claimed: for a file that cannot be read or decoded (missing, not
\* UTF-8, permission denied, a directory) chunk_file returns [] and does not
\* raise, and the indexing run goes on with the files left.
C22_AsClaimed ==
    /\ last.op = "chunk_file" /\ last.files[1].kind # "text" =>
          ~last.raised /\ last.result = <<>>
    /\ last.op = "chunking_run" =>
          last.result = Concat([i \in 1..Len(last.files) |->
                                   chunk_file_CatchesAll(last.files[i]).chunks])


(***************************************************************************)
(* C23: no blank chunks.                                                   *)
(***************************************************************************)
\* C23: chunk_code returns [] for an empty and for a whitespace-only text,
\* and no chunk it returns is empty or starts or ends with whitespace.  (The
\* path argument is only copied into the chunk and its chunk_id; chunk_code
\* opens no file.)
C23_NoBlankChunks ==
    ChunkDone =>
        /\ AllSpace(last.code) => last.result = <<>>
        /\ \A k \in 1..Len(last.result) :
              LET c == last.result[k].content
              IN /\ c # <<>>
                 /\ ~IsSpace(c[1])
                 /\ ~IsSpace(c[Len(c)])

\* a whitespace-only text for which the splitter returns documents
C23_Witness ==
    /\ ChunkDone
    /\ last.code # <<>>
    /\ AllSpace(last.code)
    /\ last.documents # <<>>
    /\ last.result = <<>>


(***************************************************************************)
(* SpecChat: the chat command of core/main.py.  A message of the history   *)
(* is [role, tool_calls, results]: tool_calls the ids of the tool calls an *)
(* assistant message makes, results the ids of the tool calls a message    *)
(* brings the result of.  The provider and the tools are the environment:  *)
(* a request is answered by any response or raises, a tool invocation      *)
(* returns, raises TypeError or raises another exception.                  *)
(***************************************************************************)
MaxToolCalls == 2
MaxRequests == 3

Providers == {"anthropic", "openai"}

ToolOutcomes == {"ok", "type_error", "error"}

UserMessage == [role |-> "user", tool_calls |-> <<>>, results |-> <<>>]

AssistantText == [role |-> "assistant", tool_calls |-> <<>>, results |-> <<>>]

NoResponse == [tool_calls |-> <<>>, text |-> FALSE]

\* the ids of the tool calls of a response
CallIds(response) == [k \in 1..Len(response.tool_calls) |-> response.tool_calls[k].id]

\* provider.get_assistant_message(response): OpenAIProvider gives the
\* assistant's message with the tool calls of the response; AnthropicProvider
\* and BaseProvider define no such method, the attribute lookup raises
get_assistant_message(provider, response) ==
    [raised |-> provider = "anthropic",
     message |-> [role |-> "assistant", tool_calls |-> CallIds(response),
                  results |-> <<>>]]

\* the responses of a provider whose tools have the given names: up to
\* MaxToolCalls tool calls with the ids 1, 2, ..., with or without a text
Responses(names) ==
    UNION { { [tool_calls |-> [k \in 1..n |-> [id |-> k, name |-> f[k]]],
               text |-> t] : f \in [1..n -> names], t \in BOOLEAN }
            : n \in 0..MaxToolCalls }

\* provider.send_message: a response, or an exception
\* (raised = TRUE)
SendOutcomes(names) ==
    { [raised |-> FALSE, response |-> r] : r \in Responses(names) }
    \cup { [raised |-> TRUE, response |-> NoResponse] }

\* the for loop over response.tool_calls: the result of a call, or the error
\* result of a call that raised TypeError, is added to tool_results; any other
\* exception leaves the loop
ExecTools(calls, outcomes) ==
    LET bad == {k \in 1..Len(calls) : outcomes[k] = "error"}
    IN IF bad # {}
       THEN [raised |-> TRUE, tool_results |-> <<>>]
       ELSE [raised |-> FALSE,
             tool_results |-> [k \in 1..Len(calls) |-> calls[k].id]]

\* the messages added for tool_results: one user message holding all of them
\* for anthropic, one message per result otherwise
ToolResultMessages(provider, tool_results) ==
    IF provider = "anthropic"
    THEN <<[role |-> "user", tool_calls |-> <<>>, results |-> tool_results]>>
    ELSE [k \in 1..Len(tool_results) |->
            [role |-> "tool", tool_calls |-> <<>>, results |-> <<tool_results[k]>>]]

\* the text of a response is added to the history when there is one
WithText(messages, response) ==
    IF response.text THEN Append(messages, AssistantText) ELSE messages

\* chat starts: an empty history; the todoist agents run a startup sequence
ChatStart(providers) ==
    /\ loop.mode = "none"
    /\ \E p \in providers, todoist \in BOOLEAN :
          loop' = [NoLoop EXCEPT !.mode = "chat", !.provider = p,
                                 !.pc = IF todoist THEN "startup" ELSE "input"]
    /\ UNCHANGED <<store, index, doc_ids, kw_good, reachable, collection_exists,
                   alpha, last>>

\* the startup message and its request; an exception ends the command
ChatStartup ==
    /\ loop.mode = "chat"
    /\ loop.pc = "startup"
    /\ LET messages == Append(loop.messages, UserMessage)
       IN \E s \in SendOutcomes({"get_current_time"}) :
             loop' = [loop EXCEPT !.messages = messages, !.sent = messages,
                                  !.requests = @ + 1,
                                  !.response = s.response,
                                  !.raised = s.raised,
                                  !.pc = IF s.raised THEN "done"
                                         ELSE "startup_tools"]
    /\ UNCHANGED <<store, index, doc_ids, kw_good, reachable, collection_exists,
                   alpha, last>>

\* the startup tool calls and the request for the greeting; nothing catches
\* an exception here, it ends the command
ChatStartupTools ==
    /\ loop.mode = "chat"
    /\ loop.pc = "startup_tools"
    /\ IF loop.response.tool_calls = <<>>
       THEN loop' = [loop EXCEPT !.pc = "input"]
       ELSE \E outcomes \in [1..Len(loop.response.tool_calls) -> ToolOutcomes],
               s \in SendOutcomes({"get_current_time"}) :
               LET a == get_assistant_message(loop.provider, loop.response)
                   called == Append(loop.messages, a.message)
                   e == ExecTools(loop.response.tool_calls, outcomes)
                   messages == called \o ToolResultMessages(loop.provider,
                                                            e.tool_results)
               IN IF a.raised
                  THEN loop' = [loop EXCEPT !.raised = TRUE, !.pc = "done"]
                  ELSE IF e.raised
                  THEN loop' = [loop EXCEPT !.messages = called,
                                            !.outcomes = outcomes,
                                            !.raised = TRUE, !.pc = "done"]
                  ELSE loop' = [loop EXCEPT
                                  !.messages = IF s.raised THEN messages
                                               ELSE WithText(messages, s.response),
                                  !.sent = messages,
                                  !.requests = @ + 1,
                                  !.outcomes = outcomes,
                                  !.response = s.response,
                                  !.raised = s.raised,
                                  !.pc = IF s.raised THEN "done" ELSE "input"]
    /\ UNCHANGED <<store, index, doc_ids, kw_good, reachable, collection_exists,
                   alpha, last>>

\* the state after a request of the main loop was answered: a response with
\* tool calls goes to the tool loop, a response without them ends the turn
\* with its text, an exception is printed and the conversation continues
AfterSend(lp, messages, s) ==
    [lp EXCEPT !.messages = IF s.raised \/ s.response.tool_calls # <<>>
                            THEN messages
                            ELSE WithText(messages, s.response),
               !.sent = messages,
               !.requests = @ + 1,
               !.response = s.response,
               !.raised = s.raised,
               !.pc = IF ~s.raised /\ s.response.tool_calls # <<>>
                      THEN "tools" ELSE "input"]

\* a turn of the main loop: the user's message is added and the history sent
ChatUserMessage ==
    /\ loop.mode = "chat"
    /\ loop.pc = "input"
    /\ loop.requests < MaxRequests
    /\ \E s \in SendOutcomes({"read_file"}) :
          loop' = AfterSend(loop, Append(loop.messages, UserMessage), s)
    /\ UNCHANGED <<store, index, doc_ids, kw_good, reachable, collection_exists,
                   alpha, last>>

\* a round of the tool loop: the assistant's message is added, the tools are
\* invoked, their results are added and the history is sent again; an
\* exception other than a tool's TypeError (of get_assistant_message, of a
\* tool, of the request) goes to the handler of the main loop, which prints
\* it and continues with the next input
ChatToolRound ==
    /\ loop.mode = "chat"
    /\ loop.pc = "tools"
    /\ \E outcomes \in [1..Len(loop.response.tool_calls) -> ToolOutcomes],
          s \in SendOutcomes({"read_file"}) :
          LET a == get_assistant_message(loop.provider, loop.response)
              called == Append(loop.messages, a.message)
              e == ExecTools(loop.response.tool_calls, outcomes)
              messages == called \o ToolResultMessages(loop.provider,
                                                       e.tool_results)
          IN IF a.raised
             THEN loop' = [loop EXCEPT !.raised = TRUE, !.pc = "input"]
             ELSE IF e.raised
             THEN loop' = [loop EXCEPT !.messages = called,
                                       !.outcomes = outcomes,
                                       !.raised = TRUE, !.pc = "input"]
             ELSE /\ loop.requests < MaxRequests
                  /\ loop' = [AfterSend(loop, messages, s)
                                EXCEPT !.outcomes = outcomes]
    /\ UNCHANGED <<store, index, doc_ids, kw_good, reachable, collection_exists,
                   alpha, last>>

\* Ctrl+C at the prompt ends the command
ChatInterrupt ==
    /\ loop.mode = "chat"
    /\ loop.pc = "input"
    /\ loop' = [loop EXCEPT !.pc = "done"]
    /\ UNCHANGED <<store, index, doc_ids, kw_good, reachable, collection_exists,
                   alpha, last>>

NextChat ==
    \/ ChatStart(Providers)
    \/ ChatStartup
    \/ ChatStartupTools
    \/ ChatUserMessage
    \/ ChatToolRound
    \/ ChatInterrupt

SpecChat == Init /\ [][NextChat]_vars

\* a history is a complete transaction record: every assistant message with
\* tool calls is immediately followed by the results of all its calls in call
\* order, in one message or in one message per call
Complete(messages) ==
    \A i \in 1..Len(messages) :
        LET calls == messages[i].tool_calls
        IN calls # <<>> =>
              \/ /\ i + 1 <= Len(messages)
                 /\ messages[i + 1].results = calls
              \/ /\ i + Len(calls) <= Len(messages)
                 /\ \A k \in 1..Len(calls) :
                       messages[i + k].results = <<calls[k]>>

\* C24 as claimed: every message history the chat loop sends to the provider
\* is a complete transaction record, each assistant tool-call message in it
\* immediately followed by a result for every one of its tool calls in call
\* order, also after a tool invocation failed with any kind of exception.
C24_AsClaimed ==
    loop.mode = "chat" => Complete(loop.sent)


(***************************************************************************)
(* SpecRun: the run command of core/main.py.  steps keeps, for every step  *)
(* of the for loop, the tools the response called and how the step ended.  *)
(***************************************************************************)
MaxSteps == 2

RunTools == {"read_file", "git_commit"}

\* a loop that makes one step more than max_steps
StepsLeft_OneMore(lp) == lp.step <= lp.max_steps

\* for step in range(max_steps): there is a step left to make
StepsLeft(lp) == lp.step < lp.max_steps

\* commit_requested: one of the tool calls names git_commit
CommitRequested(calls) ==
    \E k \in 1..Len(calls) : calls[k].name = "git_commit"

\* what steps keeps of a step: the names of the tools the response called,
\* whether a tool raised TypeError, whether an exception reached the handler
StepRecord(calls, outcomes, raised) ==
    [names |-> [k \in 1..Len(calls) |-> calls[k].name],
     type_error |-> \E k \in 1..Len(calls) : outcomes[k] = "type_error",
     raised |-> raised]

\* run starts: the history is the goal
RunStart(providers, steps) ==
    /\ loop.mode = "none"
    /\ \E p \in providers, max_steps \in steps :
          loop' = [NoLoop EXCEPT !.mode = "run", !.provider = p,
                                 !.messages = <<UserMessage>>,
                                 !.max_steps = max_steps, !.pc = "step"]
    /\ UNCHANGED <<store, index, doc_ids, kw_good, reachable, collection_exists,
                   alpha, last>>

\* one step of the for loop: the history is sent; a response without tool
\* calls ends the run; otherwise the tools are invoked, the assistant's
\* message and the results are added to the history, and the run ends when a
\* commit was requested; an exception that reaches the handler of the step
\* ends the run
RunStep ==
    /\ loop.mode = "run"
    /\ loop.pc = "step"
    /\ StepsLeft(loop)
    /\ \E s \in SendOutcomes(RunTools) :
       \E outcomes \in [1..Len(s.response.tool_calls) -> ToolOutcomes] :
          LET calls == s.response.tool_calls
              e == ExecTools(calls, outcomes)
              a == get_assistant_message(loop.provider, s.response)
              sent == [loop EXCEPT !.sent = loop.messages,
                                   !.requests = @ + 1]
              Ended(lp, raised, report) ==
                  [lp EXCEPT !.steps = Append(@, StepRecord(calls, outcomes,
                                                            raised)),
                             !.raised = raised,
                             !.report = report,
                             !.pc = IF report = "" THEN "step" ELSE "done",
                             !.step = IF report = "" THEN @ + 1 ELSE @]
              added == [sent EXCEPT
                          !.messages = Append(@, a.message)
                                       \o ToolResultMessages(loop.provider,
                                                             e.tool_results)]
          IN loop' =
                IF s.raised THEN Ended(sent, TRUE, "error")
                ELSE IF calls = <<>> THEN Ended(sent, FALSE, "finished")
                ELSE IF e.raised \/ a.raised THEN Ended(sent, TRUE, "error")
                ELSE IF CommitRequested(calls)
                     THEN Ended(added, FALSE, "commit")
                     ELSE Ended(added, FALSE, "")
    /\ UNCHANGED <<store, index, doc_ids, kw_good, reachable, collection_exists,
                   alpha, last>>

\* the else of the for loop: every step was made and none left the loop
RunExhausted ==
    /\ loop.mode = "run"
    /\ loop.pc = "step"
    /\ ~StepsLeft(loop)
    /\ loop' = [loop EXCEPT !.report = "max_steps", !.pc = "done"]
    /\ UNCHANGED <<store, index, doc_ids, kw_good, reachable, collection_exists,
                   alpha, last>>

NextRun ==
    \/ RunStart(Providers, 0..MaxSteps)
    \/ RunStep
    \/ RunExhausted

\* the steps of run are made one after the other without waiting for
\* anything but the provider and the tools, which answer or raise
SpecRun == Init /\ [][NextRun]_vars /\ WF_vars(RunStep \/ RunExhausted)

\* the response of a step has tool calls
WithToolCalls(h) == h.names # <<>>

\* a step's response asks for a git_commit
WithCommit(h) == \E k \in 1..Len(h.names) : h.names[k] = "git_commit"

\* a step after which the run goes on: tool calls, none of them a git_commit,
\* and no exception
GoesOn(h) == WithToolCalls(h) /\ ~WithCommit(h) /\ ~h.raised

\* the requests of run are bounded by max_steps, every step before the last
\* one goes on, a run that is over made a last step that does not go on or
\* made max_steps steps, and 'Maximum steps reached' is reported exactly by
\* the runs that are over after max_steps steps that all go on
C25_Steps ==
    loop.mode = "run" =>
        /\ loop.requests <= loop.max_steps
        /\ Len(loop.steps) = loop.requests
        /\ \A i \in 1..(Len(loop.steps) - 1) : GoesOn(loop.steps[i])
        /\ loop.pc = "done" =>
              \/ Len(loop.steps) > 0 /\ ~GoesOn(loop.steps[Len(loop.steps)])
              \/ Len(loop.steps) = loop.max_steps
        /\ (loop.pc = "step" /\ loop.steps # <<>>) =>
              GoesOn(loop.steps[Len(loop.steps)])
        /\ loop.report = "max_steps" <=>
              /\ loop.pc = "done"
              /\ Len(loop.steps) = loop.max_steps
              /\ \A i \in 1..Len(loop.steps) : GoesOn(loop.steps[i])

HybridIndexDone == last.op = "index"

FinalResults == Take(SortByScoreDesc(last.fused), last.top_k)

\* the payload lookup of the last search returned
LookupWorked == last.up /\ last.fault # "retrieve"

\* C27: the backfill works on the results left after the cut to top_k and
\* changes nothing but payloads: the results of search are the final results
\* in their order; a final result that has a payload keeps it; one that lacks
\* it carries the payload of its point when the lookup returned and the point
\* is in the store, and is returned as it was, without payload, when the
\* lookup failed or the point is not in the store.
C27_Backfill ==
    (last.op = "search" /\ last.fused_ok) =>
        /\ Len(last.result) = Len(FinalResults)
        /\ \A i \in 1..Len(FinalResults) :
              LET f == FinalResults[i]
                  r == last.result[i]
              IN IF f.payload = NoKey /\ LookupWorked /\ f.id \in DOMAIN store
                 THEN r = [f EXCEPT !.payload = <<store[f.id]>>]
                 ELSE r = f

\* C27 witness: a search whose first final result had no payload and got the
\* payload of its point from the lookup.
C27_Witness ==
    /\ last.op = "search"
    /\ last.fused_ok
    /\ LookupWorked
    /\ last.result # <<>>
    /\ FinalResults[1].payload = NoKey
    /\ FinalResults[1].id \in DOMAIN store
    /\ last.result[1].payload = <<store[last.result[1].id]>>


(***************************************************************************)
(* SpecTokens: a text indexed as the document of a point, and the same     *)
(* text given as a query.                                                  *)
(***************************************************************************)
TokenAlphabet == {"a", "B", " ", "_", CapitalIDot}

TokenTexts ==
    UNION {[1..n -> TokenAlphabet] : n \in 0..MaxTextLen}

\* the text is stored as the content of a chunk by index_chunks and
\* tokenized by _build_index from the payload of its point; search tokenizes
\* the same text as its query
TokenizeCall(texts) ==
    /\ last.op = "none"
    /\ \E text \in texts :
          LET chunk == [content |-> text, file_path |-> "a.py"]
          IN last' = [NoCall EXCEPT !.op = "tokenize", !.query = text,
                         !.chunks = <<chunk>>,
                         !.documents = DocTokens(PayloadOf(chunk)),
                         !.result = QueryTokens(text)]
    /\ UNCHANGED <<store, index, doc_ids, kw_good, reachable, collection_exists,
                   alpha, loop>>

NextTokens ==
    \/ TokenizeCall(TokenTexts)
    \/ Return

SpecTokens == Init /\ [][NextTokens]_vars

\* C28 as claimed: for any text, the token list obtained when it is indexed
\* as a point's document equals the token list obtained when it is given as
\* a query.
C28_AsClaimed ==
    last.op = "tokenize" => last.documents = last.result


(***************************************************************************)
(* SpecEnsure: QdrantVectorStore._ensure_collection_exists, called by the  *)
(* constructor of every QdrantVectorStore on the collection.               *)
(***************************************************************************)
\* what get_collection may do besides answering: raise although the backend
\* is there (a timeout)
EnsureFaults == {"none", "get"}

\* _ensure_collection_exists: get_collection answers only for a collection
\* that exists on a backend that is reachable; on any exception of it
\* create_collection is called, which creates an absent collection, is
\* refused by the backend for a collection that exists and fails without a
\* backend, the exception leaving the method.  A collection is never
\* replaced: the points stay.
_ensure_collection_exists(st, up, present, fault) ==
    IF up /\ present /\ fault = "none"
    THEN [create |-> FALSE, raised |-> FALSE, exists |-> present, store |-> st]
    ELSE IF up /\ ~present
         THEN [create |-> TRUE, raised |-> FALSE, exists |-> TRUE,
               store |-> EmptyStore]
         ELSE [create |-> TRUE, raised |-> TRUE, exists |-> present,
               store |-> st]

\* a QdrantVectorStore is constructed on the collection: its constructor
\* calls _ensure_collection_exists
EnsureCollectionCall(faults) ==
    /\ last.op = "none"
    /\ \E f \in faults :
          LET out == _ensure_collection_exists(store, reachable,
                                               collection_exists, f)
          IN /\ store' = out.store
             /\ collection_exists' = out.exists
             /\ last' = [NoCall EXCEPT !.op = "ensure", !.fault = f,
                            !.up = reachable, !.present = collection_exists,
                            !.create = out.create, !.raised = out.raised,
                            !.pre = store]
    /\ UNCHANGED <<index, doc_ids, kw_good, reachable, alpha, loop>>

NextEnsure ==
    \/ EnsureCollectionCall(EnsureFaults)
    \/ StoreIndexChunks(SysChunkLists, {{}}, {{}})
    \/ ClearCollection(ClearFaults)
    \/ BackendDown
    \/ BackendUp
    \/ Return

SpecEnsure == Init /\ [][NextEnsure]_vars

\* C29 as claimed: _ensure_collection_exists creates the collection only when
\* it does not exist; when the collection exists, a further call issues no
\* create and leaves the stored points unchanged.
C29_AsClaimed ==
    last.op = "ensure" =>
        /\ last.create => ~last.present
        /\ last.present => (~last.create /\ store = last.pre)


(***************************************************************************)
(* C30: the points of several index_chunks calls on one collection.        *)
(***************************************************************************)
\* get_chunk_count() of a collection that answers
PointsCount(st) == get_chunk_count(st, TRUE)

\* C30 as claimed: a point stored by an earlier successful index_chunks call
\* is still in the store, unchanged, after a later call made with chunks of
\* other files, and on a collection that was empty at first every successful
\* call adds the count it returns to get_chunk_count(), which is therefore
\* the sum of the counts returned.
C30_AsClaimed ==
    IndexDone =>
        /\ \A i \in DOMAIN last.pre :
               last.pre[i].file_path \notin FilesOf(last.chunks) =>
                   (i \in DOMAIN store /\ store[i] = last.pre[i])
        /\ PointsCount(store) = PointsCount(last.pre) + last.count

====
